---- MODULE Spec2Model ----
(***************************************************************************)
(* Model of the audio analysis core of sample-analysis (lib/audio-analyzer):*)
(* fft, getMagnitudeSpectrum, pearsonCorrelation, detectKey, detectBPM.    *)
(*                                                                         *)
(* Numbers.  The code computes in IEEE doubles and Float32Arrays.  The     *)
(* model computes in fixed point: a real x is the integer floor(x * FX),    *)
(* FX = 1024.                                                              *)
(* Products are rescaled by FX, quotients are floored, Math.sqrt is the    *)
(* floor of the root.  Sums of products that the code never rescales       *)
(* (autocorrelation, chroma energy) are kept in the unit named at the      *)
(* definition.  Float rounding itself is not modelled.                     *)
(*                                                                         *)
(* Sizes.  The code analyses frames of 2048 samples every 512 (tempo) and  *)
(* of 8192 every 4096 (key).  The model keeps the code's loops and the     *)
(* ratios frame:hop (4:1 and 2:1) at frame sizes 4 and 8, so that the      *)
(* radix-2 transform is computed in full for every frame; sample rates are *)
(* scaled with them, so lags and BPM values are the code's.                *)
(***************************************************************************)
EXTENDS Integers, Sequences, FiniteSets, TLC

\* ------------------------------------------------------------------ bounds

\* Calls of analyzeAudio on one file that are not yet settled.
MaxPending == 1

\* How far restartTrigger and stopTrigger are counted.
MaxTrigger == 2

\* How many oscillators a KeyRadar creates.
MaxOscillators == 3

\* The root of the fixed-point unit (a square, so that roots stay in the unit).
FXRoot == 32
\* Largest impulse amplitude of an input buffer, in units of 1.0.
MaxAmp == 2
\* Longest tempo input buffer beyond the 105 samples that give 100 flux values.
ExtraLen == 20

\* --------------------------------------------------------- program constants

\* part_003:186-187 (2048 and 512 in the code; see Sizes above)
fftSizeBPM == 4
hopSizeBPM == 1
\* part_003:111-112 (8192 and 4096 in the code)
fftSizeKey == 8
hopSizeKey == 4
\* part_003:209
MinFluxLength == 100
\* part_003:223-224
minBPM == 60
maxBPM == 180
\* part_003:210, 251
FallbackBPM == 120

\* ------------------------------------------------------------------ numbers

\* Fixed-point unit: the integer that stands for 1.0.
FX == FXRoot * FXRoot

Abs(x) == IF x < 0 THEN -x ELSE x

Max2(a, b) == IF a > b THEN a ELSE b

Min2(a, b) == IF a < b THEN a ELSE b

\* Math.max of xs[lo..hi], lo <= hi (halving keeps the evaluation shallow).
RECURSIVE MaxIn(_, _, _)
MaxIn(xs, lo, hi) ==
    IF lo = hi THEN xs[lo]
    ELSE LET mid == (lo + hi) \div 2
         IN  Max2(MaxIn(xs, lo, mid), MaxIn(xs, mid + 1, hi))

\* Math.max(...xs) of a non-empty sequence.
MaxOf(xs) == MaxIn(xs, 1, Len(xs))

\* The sum of xs[lo..hi].
RECURSIVE SumIn(_, _, _)
SumIn(xs, lo, hi) ==
    IF lo > hi THEN 0
    ELSE IF lo = hi THEN xs[lo]
    ELSE LET mid == (lo + hi) \div 2
         IN  SumIn(xs, lo, mid) + SumIn(xs, mid + 1, hi)

SumOf(xs) == SumIn(xs, 1, Len(xs))

\* floor(sqrt(x)) by bisection on lo <= root < hi.
RECURSIVE SqrtIn(_, _, _)
SqrtIn(x, lo, hi) ==
    IF hi - lo <= 1 THEN lo
    ELSE LET mid == (lo + hi) \div 2
         IN  IF mid * mid <= x THEN SqrtIn(x, mid, hi) ELSE SqrtIn(x, lo, mid)

\* Math.sqrt on integers (46341^2 exceeds the 32-bit range of the checker).
Sqrt(x) == SqrtIn(x, 0, 46341)

\* Math.round(num / den) for den > 0: floor(num/den + 1/2), halves go up.
Round(num, den) == (2 * num + den) \div (2 * den)

\* Fixed-point product a * b: floor(a * b / FX), a split so that no intermediate
\* value leaves the 32-bit range of the checker.
Mul(a, b) == (a \div FX) * b + ((a % FX) * b) \div FX

\* Fixed-point quotient a / b, b # 0.
Div(a, b) == (a * FX) \div b

\* Math.sqrt of a fixed-point value.
FixSqrt(x) == Sqrt(x) * FXRoot

\* A decimal constant of the code given in hundredths, e.g. 6.35 as 635.
Hundredths(h) == (h * FX) \div 100

\* Math.cos(-2*pi/len) and Math.sin(-2*pi/len) for the stage lengths 2, 4, 8.
TwiddleCos(len) ==
    CASE len = 2 -> -FX
      [] len = 4 -> 0
      [] len = 8 -> (707 * FX) \div 1000

TwiddleSin(len) ==
    CASE len = 2 -> 0
      [] len = 4 -> -FX
      [] len = 8 -> -((707 * FX) \div 1000)

\* Math.cos(2*pi*i/(fftSize-1)) in thousandths, for fftSize 4, 8 and 2.
HannCos(i, fftSize) ==
    CASE fftSize = 4 -> <<1000, -500, -500, 1000>>[i + 1]
      [] fftSize = 8 -> <<1000, 623, -223, -901, -901, -223, 623, 1000>>[i + 1]
      [] fftSize = 2 -> <<1000, 1000>>[i + 1]

\* 0.5 * (1 - Math.cos(2*pi*i/(fftSize-1))), part_003:75.
HannWindow(i, fftSize) == ((1000 - HannCos(i, fftSize)) * FX) \div 2000

\* ---------------------------------------------------------------------- fft

\* part_003:31-36: the inner while loop and j += m.
RECURSIVE ReverseAdvance(_, _)
ReverseAdvance(j, m) ==
    IF m >= 1 /\ j >= m THEN ReverseAdvance(j - m, m \div 2) ELSE j + m

\* Mutant of Swap: nothing is exchanged.
SwapNot(f, i, j) == f

\* part_003:28-29
Swap(f, i, j) == [f EXCEPT ![i] = f[j], ![j] = f[i]]

\* part_003:26-37: the bit-reversal loop from index i on, j as the code holds it.
RECURSIVE BitReversal(_, _, _, _)
BitReversal(c, i, j, n) ==
    IF i >= n THEN c
    ELSE LET d == IF i < j THEN [re |-> Swap(c.re, i, j), im |-> Swap(c.im, i, j)]
                  ELSE c
         IN  BitReversal(d, i + 1, ReverseAdvance(j, n \div 2), n)

\* part_003:50-64: the butterflies j..halfLen-1 of the block starting at i.
RECURSIVE Butterflies(_, _, _, _, _, _, _, _)
Butterflies(c, i, j, halfLen, curReal, curImag, wReal, wImag) ==
    IF j >= halfLen THEN c
    ELSE LET uReal == c.re[i + j]
             uImag == c.im[i + j]
             tReal == Mul(curReal, c.re[i + j + halfLen])
                      - Mul(curImag, c.im[i + j + halfLen])
             tImag == Mul(curReal, c.im[i + j + halfLen])
                      + Mul(curImag, c.re[i + j + halfLen])
             d == [re |-> [c.re EXCEPT ![i + j] = uReal + tReal,
                                       ![i + j + halfLen] = uReal - tReal],
                   im |-> [c.im EXCEPT ![i + j] = uImag + tImag,
                                       ![i + j + halfLen] = uImag - tImag]]
             nextReal == Mul(curReal, wReal) - Mul(curImag, wImag)
             nextImag == Mul(curReal, wImag) + Mul(curImag, wReal)
         IN  Butterflies(d, i, j + 1, halfLen, nextReal, nextImag, wReal, wImag)

\* part_003:46-65: the blocks i, i+len, ... of one stage.
RECURSIVE Blocks(_, _, _, _)
Blocks(c, i, len, n) ==
    IF i >= n THEN c
    ELSE Blocks(Butterflies(c, i, 0, len \div 2, FX, 0,
                            TwiddleCos(len), TwiddleSin(len)),
                i + len, len, n)

\* part_003:40-66: the stages len = 2, 4, ..., n.
RECURSIVE Stages(_, _, _)
Stages(c, len, n) ==
    IF len > n THEN c ELSE Stages(Blocks(c, 0, len, n), 2 * len, n)

\* part_003:21-67.  c = [re, im], two arrays over 0..n-1, transformed "in place":
\* the value is the arrays' contents when fft returns.
fft(c, n) ==
    IF n <= 1 THEN c ELSE Stages(BitReversal(c, 0, 0, n), 2, n)

\* samples[i] || 0: an index past the end reads undefined, which becomes 0.
SampleOrZero(samples, i) == IF i < Len(samples) THEN samples[i + 1] ELSE 0

\* part_003:70-78: the private windowed copy of the frame.
Windowed(samples, fftSize) ==
    [re |-> [i \in 0..(fftSize - 1) |->
                Mul(SampleOrZero(samples, i), HannWindow(i, fftSize))],
     im |-> [i \in 0..(fftSize - 1) |-> 0]]

\* part_003:69-89.  The magnitudes of bins 0..fftSize/2-1, as a sequence.
getMagnitudeSpectrum(samples, fftSize) ==
    LET c == fft(Windowed(samples, fftSize), fftSize)
    IN  [k \in 1..(fftSize \div 2) |->
            Sqrt(c.re[k - 1] * c.re[k - 1] + c.im[k - 1] * c.im[k - 1])]

\* ---------------------------------------------------------------- detectKey

\* part_003:2-3: the Krumhansl-Kessler profiles, in hundredths.
MAJOR_PROFILE == <<635, 223, 348, 233, 438, 409, 252, 519, 239, 366, 229, 288>>

MINOR_PROFILE == <<633, 268, 352, 538, 260, 353, 254, 475, 398, 269, 334, 317>>

\* part_003:5
KEY_NAMES == <<"C", "C#", "D", "D#", "E", "F", "F#", "G", "G#", "A", "A#", "B">>

Profile(mode) ==
    LET p == IF mode = "major" THEN MAJOR_PROFILE ELSE MINOR_PROFILE
    IN  [i \in 1..12 |-> Hundredths(p[i])]

\* The value that stands for NaN: no fixed-point number of the model reaches it.
NaN == -(FX * FX * FX)

\* part_003:91-106.  Math.sqrt of a negative number is NaN, NaN === 0 is false
\* and num / NaN is NaN.
pearsonCorrelation(a, b) ==
    LET n     == Len(a)
        sumA  == SumOf(a)
        sumB  == SumOf(b)
        sumAB == SumOf([i \in 1..n |-> Mul(a[i], b[i])])
        sumA2 == SumOf([i \in 1..n |-> Mul(a[i], a[i])])
        sumB2 == SumOf([i \in 1..n |-> Mul(b[i], b[i])])
        num   == n * sumAB - Mul(sumA, sumB)
        radicand == Mul(n * sumA2 - Mul(sumA, sumA), n * sumB2 - Mul(sumB, sumB))
    IN  IF radicand < 0 THEN NaN
        ELSE LET den == FixSqrt(radicand)
             IN  IF den = 0 THEN 0 ELSE Div(num, den)

\* The frequencies, in thousandths of a Hz, at which Math.round(12 * log2(f/440) + 69)
\* steps from one note to the next, from A4 (440 Hz) to A5: 440 * 2^((k - 1/2)/12).
NoteSteps == <<427474, 452893, 479823, 508355, 538584, 570609, 604540,
               640487, 678573, 718923, 761672, 806964, 854948>>

\* part_003:127-129: the pitch class of a frequency given in thousandths of a Hz.
\* An octave is 12 notes, so doubling or halving keeps the class.
RECURSIVE PitchClass(_)
PitchClass(mHz) ==
    IF mHz < NoteSteps[1] THEN PitchClass(2 * mHz)
    ELSE IF mHz >= NoteSteps[13] THEN PitchClass(mHz \div 2)
    ELSE LET k == CHOOSE j \in 1..12 : NoteSteps[j] <= mHz /\ mHz < NoteSteps[j + 1]
         IN  (9 + k - 1) % 12

\* Mutant of InBand: 60 Hz and 2000 Hz themselves are discarded.
InBandExclusive(bin, rate) ==
    ~(bin * rate <= 60 * fftSizeKey \/ bin * rate >= 2000 * fftSizeKey)

\* part_003:123-124: bin lies in the 60..2000 Hz band, freq = bin * rate / fftSize.
InBand(bin, rate) ==
    ~(bin * rate < 60 * fftSizeKey \/ bin * rate > 2000 * fftSizeKey)

\* part_003:122-132: the bins bin .. length-1 (0-based) of one spectrum added.
RECURSIVE AddBins(_, _, _, _)
AddBins(chr, magnitude, bin, rate) ==
    IF bin >= Len(magnitude) THEN chr
    ELSE IF ~InBand(bin, rate) THEN AddBins(chr, magnitude, bin + 1, rate)
    ELSE LET pitch == PitchClass((bin * rate * 1000) \div fftSizeKey)
             m     == magnitude[bin + 1]
         IN  AddBins([chr EXCEPT ![pitch + 1] = @ + Mul(m, m)],
                     magnitude, bin + 1, rate)

\* Mutant of NormalizeChroma: divided by the sum.
NormalizeChromaBySum(chr) ==
    LET total == SumOf(chr)
    IN  IF total > 0 THEN [i \in 1..12 |-> Div(chr[i], total)] ELSE chr

\* part_003:135-141: divide by the maximum, unless it is 0.
NormalizeChroma(chr) ==
    LET maxChroma == MaxOf(chr)
    IN  IF maxChroma > 0 THEN [i \in 1..12 |-> Div(chr[i], maxChroma)] ELSE chr

\* Mutant of ShiftedChroma: the rotation turns the other way.
ShiftedChromaBackwards(chr, shift) == [i \in 1..12 |-> chr[((i - 1 - shift + 12) % 12) + 1]]

\* part_003:147-150
ShiftedChroma(chr, shift) == [i \in 1..12 |-> chr[((i - 1 + shift) % 12) + 1]]

\* part_003:146-157: the candidates pushed for shift, shift + 1, ..., 11.
RECURSIVE Candidates(_, _)
Candidates(chr, shift) ==
    IF shift >= 12 THEN <<>>
    ELSE LET shifted == ShiftedChroma(chr, shift)
         IN  <<[key |-> KEY_NAMES[shift + 1], mode |-> "major",
                correlation |-> pearsonCorrelation(Profile("major"), shifted)],
               [key |-> KEY_NAMES[shift + 1], mode |-> "minor",
                correlation |-> pearsonCorrelation(Profile("minor"), shifted)]>>
             \o Candidates(chr, shift + 1)

\* Insert c into a sequence sorted by correlation descending, after its equals.
RECURSIVE InsertCandidate(_, _)
InsertCandidate(sorted, c) ==
    IF sorted = <<>> THEN <<c>>
    ELSE IF sorted[1].correlation >= c.correlation
         THEN <<sorted[1]>> \o InsertCandidate(Tail(sorted), c)
         ELSE <<c>> \o sorted

\* Mutant of SortCandidates: the candidates stay in the order they were pushed.
SortCandidatesNot(cs) == cs

\* part_003:160: candidates.sort((a, b) => b.correlation - a.correlation), stable.
RECURSIVE SortCandidates(_)
SortCandidates(cs) ==
    IF cs = <<>> THEN <<>>
    ELSE InsertCandidate(SortCandidates(SubSeq(cs, 1, Len(cs) - 1)), cs[Len(cs)])

\* Mutant of TopCandidates: seven are retained.
TopCandidatesSeven(cs) == SubSeq(cs, 1, Min2(7, Len(cs)))

\* part_003:163: candidates.slice(0, 6)
TopCandidates(cs) == SubSeq(cs, 1, Min2(6, Len(cs)))

\* Mutant of Range: the difference floored to a minimum of 1.
RangeFloored(top) == Max2(top[1].correlation - top[Len(top)].correlation, FX)

\* part_003:164-166: maxCorr - minCorr || 1
Range(top) ==
    LET maxCorr == top[1].correlation
        minCorr == top[Len(top)].correlation
    IN  IF maxCorr - minCorr # 0 THEN maxCorr - minCorr ELSE FX

\* Mutant of Scored: six equal correlations are given full confidence.
ScoredEqualAsFull(top) ==
    [i \in 1..Len(top) |->
        [key |-> top[i].key, mode |-> top[i].mode,
         confidence |-> IF top[1].correlation = top[Len(top)].correlation THEN FX
                        ELSE Div(top[i].correlation - top[Len(top)].correlation,
                                 Range(top))]]

\* part_003:168-172
Scored(top) ==
    [i \in 1..Len(top) |->
        [key |-> top[i].key, mode |-> top[i].mode,
         confidence |-> Div(top[i].correlation - top[Len(top)].correlation,
                            Range(top))]]

\* Mutant of BufferAfterFrame: the frame is a view of the buffer (subarray) and
\* the window is applied to it in place.
BufferWindowedInPlace(buffer, from, fftSize) ==
    [i \in 1..Len(buffer) |->
        IF from < i /\ i <= from + fftSize
        THEN Mul(buffer[i], HannWindow(i - from - 1, fftSize))
        ELSE buffer[i]]

\* part_003:194-195 and 118-119: the caller's samples when one frame has been
\* analysed.  data.slice copies the frame; getMagnitudeSpectrum reads samples and
\* writes real, imag and magnitude, which it allocates; fft writes real and imag.
BufferAfterFrame(buffer, from, fftSize) == buffer

\* -------------------------------------------------------------------- state

VARIABLES
    sampleRate,     \* audioBuffer.sampleRate
    data,           \* audioBuffer.getChannelData(0): the caller's samples
    pc,             \* where the analysis stands
    start,          \* detectBPM: the frame loop's variable
    prevMagnitude,  \* detectBPM: the previous frame's spectrum, <<>> for null
    spectralFlux,   \* detectBPM: the onset signal
    correlations,   \* detectBPM: the autocorrelation, one entry per lag
    peaks,          \* detectBPM: the peaks, sorted by value
    alternatives,   \* detectBPM: the Set of alternatives, in insertion order
    bpmReturn,      \* detectBPM: the return statement taken, "none" before it
    bpmResult,      \* detectBPM's return value
    keyStart,       \* detectKey: the frame loop's variable
    chroma,         \* detectKey: the 12 chroma values
    maxChroma,      \* detectKey: the maximum found before normalizing
    candidates,     \* detectKey: the 24 candidates, sorted once pc is past the sort
    range,          \* detectKey: the divisor of the confidences
    keyResult,      \* detectKey's return value
    corrPc,         \* pearsonCorrelation called on its own: "idle", "called", "returned"
    corrA,          \* pearsonCorrelation: the argument a
    corrB,          \* pearsonCorrelation: the argument b
    corrResult,     \* pearsonCorrelation's return value
    scalePc,        \* detectKey called twice: "idle", "first", "second"
    scaledBy,       \* the factor <<numerator, denominator>> of the second buffer
    unscaledResult, \* what detectKey returned for the first buffer
    fftPc,          \* fft and getMagnitudeSpectrum called on their own: "idle",
                    \* "called", "transformed", "returned"
    fftReal,        \* fft: the array real at the call, also the samples of
                    \* getMagnitudeSpectrum
    fftImag,        \* fft: the array imag at the call
    fftOut,         \* fft: [re, im], the two arrays when fft returns
    magOut,         \* getMagnitudeSpectrum's return value
    ctxState,       \* analyzeAudio: the AudioContext, "none", "running" or "closed"
    closeCalls,     \* analyzeAudio: how often audioContext.close() was called
    failure,        \* analyzeAudio: what threw in the try block, "none" if nothing
    settled,        \* analyzeAudio's promise: "pending", "fulfilled", "rejected"
    status,         \* Home: "idle", "analyzing", "done" or "error"
    result,         \* Home: the analysis result, <<>> for null
    error,          \* Home: the error message, <<>> for null
    fileName,       \* Home: <<>> for null
    audioFile,      \* Home: <<>> for null
    isDragging,     \* Home
    isPlaying,      \* Home
    selectedBPM,    \* Home: <<>> for null
    restartTrigger, \* Home
    stopTrigger,    \* Home
    volume,         \* Home, in tenths
    bpmOffset,      \* Home
    useFlats,       \* Home
    pending,        \* Home: per file name, the calls of analyzeAudio not yet settled
    activeNote,     \* KeyRadar: <<>> for null
    audioContextRef, \* KeyRadar: <<>> for null, else the state of the context
    oscillatorRef,  \* KeyRadar: <<>> for null, else the place of the oscillator
    oscillators,    \* KeyRadar: the oscillators created, in order
    radarMounted    \* KeyRadar is on the page

bpmVars == <<start, prevMagnitude, spectralFlux, correlations, peaks,
             alternatives, bpmReturn, bpmResult>>

keyVars == <<keyStart, chroma, maxChroma, candidates, range, keyResult>>

corrVars == <<corrPc, corrA, corrB, corrResult>>

scaleVars == <<scalePc, scaledBy, unscaledResult>>

fftVars == <<fftPc, fftReal, fftImag, fftOut, magOut>>

ctxVars == <<ctxState, closeCalls, failure, settled>>

homeVars == <<status, result, error, fileName, audioFile, isDragging, isPlaying,
              selectedBPM, restartTrigger, stopTrigger, volume, bpmOffset, useFlats,
              pending>>

radarVars == <<activeNote, audioContextRef, oscillatorRef, oscillators, radarMounted>>

\* The variables of what runs apart from the two passes of an analysis.
sideVars == <<fftVars, ctxVars, homeVars, radarVars>>

\* ---------------------------------------------------------------- detectBPM

\* Mutant of Flux: falling magnitudes count as much as rising ones.
FluxUnrectified(magnitude, prev, i) ==
    SumOf([k \in 1..(Len(magnitude) - i + 1) |->
              Abs(magnitude[k + i - 1] - prev[k + i - 1])])

\* part_003:197-204: the half-wave rectified difference of two spectra.
RECURSIVE Flux(_, _, _)
Flux(magnitude, prev, i) ==
    IF i > Len(magnitude) THEN 0
    ELSE LET diff == magnitude[i] - prev[i]
         IN  (IF diff > 0 THEN diff ELSE 0) + Flux(magnitude, prev, i + 1)

\* part_003:213-219: divide by the maximum, unless it is 0.
NormalizeFlux(flux) ==
    LET maxFlux == MaxOf(flux)
    IN  IF maxFlux > 0
        THEN [i \in 1..Len(flux) |-> Div(flux[i], maxFlux)]
        ELSE flux

\* Mutant of minLag: the slowest tempo is taken for the fastest.
minLagOfMinBPM(rate) == (60 * rate) \div (minBPM * hopSizeBPM)

\* part_003:225: Math.floor((60 / maxBPM) * framesPerSecond).
minLag(rate) == (60 * rate) \div (maxBPM * hopSizeBPM)

\* Mutant of maxLag: the lags reach down to half of minBPM.
maxLagOfHalfMinBPM(rate) == (120 * rate) \div (minBPM * hopSizeBPM)

\* part_003:226: Math.floor((60 / minBPM) * framesPerSecond).
maxLag(rate) == (60 * rate) \div (minBPM * hopSizeBPM)

\* part_003:230-233: sum of signal[i] * signal[i + lag] for i = lo .. hi (0-based),
\* in units of 1/FX^2.
RECURSIVE LagSum(_, _, _, _)
LagSum(signal, lag, lo, hi) ==
    IF lo > hi THEN 0
    ELSE IF lo = hi THEN signal[lo + 1] * signal[lo + lag + 1]
    ELSE LET mid == (lo + hi) \div 2
         IN  LagSum(signal, lag, lo, mid) + LagSum(signal, lag, mid + 1, hi)

\* part_003:229-235: one entry per lag from `lag` on.
RECURSIVE Correlate(_, _, _)
Correlate(signal, lag, last) ==
    IF lag <= last /\ 2 * lag < Len(signal)
    THEN <<LagSum(signal, lag, 0, Len(signal) - lag - 1) \div (Len(signal) - lag)>>
         \o Correlate(signal, lag + 1, last)
    ELSE <<>>

\* Mutant of IsPeak: a plateau counts as a peak.
IsPeakNotStrict(corr, i) == corr[i + 1] >= corr[i] /\ corr[i + 1] >= corr[i + 2]

\* part_003:240: correlations[i] is a strict local maximum (i is 0-based).
IsPeak(corr, i) == corr[i + 1] > corr[i] /\ corr[i + 1] > corr[i + 2]

\* part_003:241-243: the peak found at index i.
PeakAt(corr, i, rate) ==
    LET lag == minLag(rate) + i
    IN  [lag |-> lag, value |-> corr[i + 1],
         bpm |-> Round(60 * rate, hopSizeBPM * lag)]

\* part_003:238-245: the peaks at indexes i .. length - 2, in index order.
RECURSIVE FindPeaks(_, _, _)
FindPeaks(corr, i, rate) ==
    IF i >= Len(corr) - 1 THEN <<>>
    ELSE (IF IsPeak(corr, i) THEN <<PeakAt(corr, i, rate)>> ELSE <<>>)
         \o FindPeaks(corr, i + 1, rate)

\* Insert p into a sequence sorted by value descending, after its equals.
RECURSIVE InsertPeak(_, _)
InsertPeak(sorted, p) ==
    IF sorted = <<>> THEN <<p>>
    ELSE IF sorted[1].value >= p.value
         THEN <<sorted[1]>> \o InsertPeak(Tail(sorted), p)
         ELSE <<p>> \o sorted

\* Mutant of SortPeaks: the peaks stay in lag order.
SortPeaksNot(ps) == ps

\* part_003:248: peaks.sort((a, b) => b.value - a.value), a stable sort.
RECURSIVE SortPeaks(_)
SortPeaks(ps) ==
    IF ps = <<>> THEN <<>>
    ELSE InsertPeak(SortPeaks(SubSeq(ps, 1, Len(ps) - 1)), ps[Len(ps)])

\* Mutant of Confidence: the divisor has no 0.001 added.
ConfidenceNoEpsilon(corr, best) ==
    LET maxCorr == MaxOf(corr)
        avgCorr == SumOf(corr) \div Len(corr)
    IN  IF maxCorr = avgCorr THEN 0
        ELSE Min2(FX, Max2(0, Div(best - avgCorr, maxCorr - avgCorr)))

\* Mutant of Confidence: the best peak is taken for the maximum.
ConfidenceAgainstBest(corr, best) ==
    LET avgCorr == SumOf(corr) \div Len(corr)
        eps     == (FX * FX) \div 1000
    IN  Min2(FX, Max2(0, Div(best - avgCorr, best - avgCorr + eps)))

\* part_003:256-258, in units of 1/FX.
Confidence(corr, best) ==
    LET maxCorr == MaxOf(corr)
        avgCorr == SumOf(corr) \div Len(corr)
        eps     == (FX * FX) \div 1000
    IN  Min2(FX, Max2(0, Div(best - avgCorr, maxCorr - avgCorr + eps)))

\* Mutant of FoldPrimary: fast tempos are not halved.
FoldPrimaryNoHalving(bpm) == IF bpm < 80 /\ bpm * 2 <= 180 THEN bpm * 2 ELSE bpm

\* part_003:264-270: the primary bpm, folded towards 80..140.
FoldPrimary(bpm) ==
    IF bpm > 140
    THEN LET halfBPM == Round(bpm, 2) IN IF halfBPM >= 60 THEN halfBPM ELSE bpm
    ELSE IF bpm < 80
         THEN LET doubleBPM == bpm * 2 IN IF doubleBPM <= 180 THEN doubleBPM ELSE bpm
         ELSE bpm

\* part_003:281-283: the fold applied to each of the other peaks.
FoldAlt(altBpm) ==
    IF altBpm > 140 /\ altBpm >= 2 * 60 THEN Round(altBpm, 2)
    ELSE IF altBpm < 80 /\ altBpm * 2 <= 180 THEN altBpm * 2
    ELSE altBpm

\* Set.prototype.add: a Set keeps insertion order and holds a value once.
SetAdd(set, x) ==
    IF \E i \in 1..Len(set) : set[i] = x THEN set ELSE Append(set, x)

\* Set.prototype.delete.
SetDelete(set, x) == SelectSeq(set, LAMBDA y : y # x)

\* Mutant of AddOctaves: the double is added only below 200.
AddOctavesBelow200(bpm) ==
    LET s1 == IF bpm * 2 < 200 THEN SetAdd(<<>>, bpm * 2) ELSE <<>>
    IN  IF bpm >= 2 * 50 THEN SetAdd(s1, Round(bpm, 2)) ELSE s1

\* part_003:276-277: the octave partners of the primary bpm.
AddOctaves(bpm) ==
    LET s1 == IF bpm * 2 <= 200 THEN SetAdd(<<>>, bpm * 2) ELSE <<>>
    IN  IF bpm >= 2 * 50 THEN SetAdd(s1, Round(bpm, 2)) ELSE s1

\* part_003:280-288: the peaks others[i..], folded and kept when more than 5 away.
RECURSIVE AddPeaks(_, _, _, _)
AddPeaks(set, others, i, bpm) ==
    IF i > Len(others) THEN set
    ELSE LET altBpm == FoldAlt(others[i].bpm)
         IN  AddPeaks(IF Abs(altBpm - bpm) > 5 THEN SetAdd(set, altBpm) ELSE set,
                      others, i + 1, bpm)

\* peaks.slice(1, 4)
OtherPeaks(ps) == SubSeq(ps, 2, Min2(4, Len(ps)))

\* part_003:273-291: the Set as it stands when the result is built.
CollectAlternatives(ps, bpm) ==
    SetDelete(AddPeaks(AddOctaves(bpm), OtherPeaks(ps), 1, bpm), bpm)

RECURSIVE InsertAsc(_, _)
InsertAsc(sorted, x) ==
    IF sorted = <<>> THEN <<x>>
    ELSE IF sorted[1] <= x THEN <<sorted[1]>> \o InsertAsc(Tail(sorted), x)
         ELSE <<x>> \o sorted

\* xs.sort((a, b) => a - b)
RECURSIVE SortAsc(_)
SortAsc(xs) ==
    IF xs = <<>> THEN <<>>
    ELSE InsertAsc(SortAsc(SubSeq(xs, 1, Len(xs) - 1)), xs[Len(xs)])

\* Mutant of ReturnedAlternatives: the sort is left out.
ReturnedUnsorted(set) == SubSeq(set, 1, Min2(3, Len(set)))

\* Mutant of ReturnedAlternatives: sorted first, truncated after.
ReturnedSortedFirst(set) == SubSeq(SortAsc(set), 1, Min2(3, Len(set)))

\* part_003:296: Array.from(alternatives).slice(0, 3).sort((a, b) => a - b)
ReturnedAlternatives(set) == SortAsc(SubSeq(set, 1, Min2(3, Len(set))))

\* part_003:210 and 251: the degenerate result.
Fallback == [bpm |-> FallbackBPM, confidence |-> 0, alternatives |-> <<>>]

\* Mutant of TooShort: 100 flux values are still too few.
TooShortAt100(flux) == Len(flux) <= MinFluxLength

\* part_003:209: too few flux values for a tempo.
TooShort(flux) == Len(flux) < MinFluxLength

\* part_003:193-207: one iteration of the frame loop.
BPMFrame ==
    /\ pc = "bpm_frames"
    /\ start + fftSizeBPM < Len(data)
    /\ LET segment   == SubSeq(data, start + 1, start + fftSizeBPM)
           magnitude == getMagnitudeSpectrum(segment, fftSizeBPM)
       IN  /\ spectralFlux' = IF prevMagnitude # <<>>
                              THEN Append(spectralFlux, Flux(magnitude, prevMagnitude, 1))
                              ELSE spectralFlux
           /\ prevMagnitude' = magnitude
    /\ data' = BufferAfterFrame(data, start, fftSizeBPM)
    /\ start' = start + hopSizeBPM
    /\ UNCHANGED <<corrVars, scaleVars, sideVars, sampleRate, pc, correlations, peaks, alternatives, bpmReturn,
                   bpmResult, keyVars>>

\* part_003:193, 209-211: the loop ends with fewer than 100 flux values.
BPMTooShort ==
    /\ pc = "bpm_frames"
    /\ ~(start + fftSizeBPM < Len(data))
    /\ TooShort(spectralFlux)
    /\ bpmReturn' = "short"
    /\ bpmResult' = Fallback
    /\ pc' = "bpm_done"
    /\ UNCHANGED <<corrVars, scaleVars, sideVars, sampleRate, data, start, prevMagnitude, spectralFlux,
                   correlations, peaks, alternatives, keyVars>>

\* part_003:193, 213-248: the loop ends with enough flux values: normalize,
\* autocorrelate, pick the peaks and sort them.
BPMCorrelate ==
    /\ pc = "bpm_frames"
    /\ ~(start + fftSizeBPM < Len(data))
    /\ ~TooShort(spectralFlux)
    /\ LET signal == NormalizeFlux(spectralFlux)
           corr   == Correlate(signal, minLag(sampleRate), maxLag(sampleRate))
       IN  /\ spectralFlux' = signal
           /\ correlations' = corr
           /\ peaks' = SortPeaks(FindPeaks(corr, 1, sampleRate))
    /\ pc' = "bpm_peaks"
    /\ UNCHANGED <<corrVars, scaleVars, sideVars, sampleRate, data, start, prevMagnitude, alternatives, bpmReturn,
                   bpmResult, keyVars>>

\* part_003:250-252: no peak.
BPMNoPeak ==
    /\ pc = "bpm_peaks"
    /\ Len(peaks) = 0
    /\ bpmReturn' = "nopeak"
    /\ bpmResult' = Fallback
    /\ pc' = "bpm_done"
    /\ UNCHANGED <<corrVars, scaleVars, sideVars, sampleRate, data, start, prevMagnitude, spectralFlux,
                   correlations, peaks, alternatives, keyVars>>

\* part_003:254-297: confidence, fold, alternatives, result.
BPMSelect ==
    /\ pc = "bpm_peaks"
    /\ Len(peaks) # 0
    /\ LET bestPeak == peaks[1]
           bpm      == FoldPrimary(bestPeak.bpm)
           set      == CollectAlternatives(peaks, bpm)
       IN  /\ alternatives' = set
           /\ bpmReturn' = "result"
           /\ bpmResult' = [bpm |-> bpm,
                            confidence |-> Confidence(correlations, bestPeak.value),
                            alternatives |-> ReturnedAlternatives(set)]
    /\ pc' = "bpm_done"
    /\ UNCHANGED <<corrVars, scaleVars, sideVars, sampleRate, data, start, prevMagnitude, spectralFlux,
                   correlations, peaks, keyVars>>

\* part_003:117-133: one iteration of the frame loop.
KeyFrame ==
    /\ pc = "bpm_done"
    /\ keyStart + fftSizeKey < Len(data)
    /\ LET segment   == SubSeq(data, keyStart + 1, keyStart + fftSizeKey)
           magnitude == getMagnitudeSpectrum(segment, fftSizeKey)
       IN  chroma' = AddBins(chroma, magnitude, 1, sampleRate)
    /\ data' = BufferAfterFrame(data, keyStart, fftSizeKey)
    /\ keyStart' = keyStart + hopSizeKey
    /\ UNCHANGED <<corrVars, scaleVars, sideVars, sampleRate, pc, bpmVars, maxChroma, candidates, range,
                   keyResult>>

\* part_003:117, 135-141: the loop ends and the chroma values are normalized.
KeyNormalize ==
    /\ pc = "bpm_done"
    /\ ~(keyStart + fftSizeKey < Len(data))
    /\ maxChroma' = MaxOf(chroma)
    /\ chroma' = NormalizeChroma(chroma)
    /\ pc' = "key_normalized"
    /\ UNCHANGED <<corrVars, scaleVars, sideVars, sampleRate, data, bpmVars, keyStart, candidates, range, keyResult>>

\* part_003:143-160: the 24 correlations, sorted.
KeyCorrelate ==
    /\ pc = "key_normalized"
    /\ candidates' = SortCandidates(Candidates(chroma, 0))
    /\ pc' = "key_sorted"
    /\ UNCHANGED <<corrVars, scaleVars, sideVars, sampleRate, data, bpmVars, keyStart, chroma, maxChroma, range,
                   keyResult>>

\* part_003:162-172: the top 6 and their confidences.
KeyScore ==
    /\ pc = "key_sorted"
    /\ range' = Range(TopCandidates(candidates))
    /\ keyResult' = Scored(TopCandidates(candidates))
    /\ pc' = "done"
    /\ UNCHANGED <<corrVars, scaleVars, sideVars, sampleRate, data, bpmVars, keyStart, chroma, maxChroma, candidates>>

\* ------------------------------------------------------------------- inputs

\* A buffer of len samples: impulses of a1 every p1 samples plus impulses of a2
\* every p2 samples (both from sample 0); a1 = a2 = 0 is silence.
Buffer(len, p1, a1, p2, a2) ==
    [n \in 1..len |-> (IF (n - 1) % p1 = 0 THEN a1 * FX ELSE 0)
                      + (IF (n - 1) % p2 = 0 THEN a2 * FX ELSE 0)]

\* A buffer of len samples of two steady tones: a times a cosine of 8 samples per
\* cycle (bin 1 of the key transform) plus b times one of 8/3 samples per cycle
\* (bin 3).  Cosine8 is cos(2*pi*k/8) in thousandths.
Cosine8 == <<1000, 707, 0, -707, -1000, -707, 0, 707>>

Tone(len, a, b) ==
    [n \in 1..len |-> (a * Cosine8[((n - 1) % 8) + 1] * FX) \div 1000
                      + (b * Cosine8[((3 * (n - 1)) % 8) + 1] * FX) \div 1000]

Periods1 == {5, 7, 9}

Periods2 == {11, 13}

Buffers(len) ==
    {Buffer(len, p1, a1, p2, a2) :
        p1 \in Periods1, a1 \in 0..MaxAmp, p2 \in Periods2, a2 \in 0..1}
    \cup {Tone(len, a, b) : a \in 0..MaxAmp, b \in 0..MaxAmp}

\* Tempo inputs.  104 samples give 99 flux values, 105 give 100.  The rates are
\* frames per second (the hop is one sample): at 86 and 90 the lags inside the
\* signal are those of 105..178 BPM, at 60 those of 61..171 BPM; 132 puts 6 lags
\* inside 100 flux values and 146 only 2.  At 30 all lags from minLag to maxLag
\* (10..30, 62..164 BPM between them) are inside the signal.
TempoCases ==
    ({60, 86, 90} \X {105, 105 + ExtraLen})
    \cup ({132, 146, 30} \X {105})
    \cup {<<86, 104>>}

\* Key inputs.  At 800 and 3520 Hz the bins of the spectrum lie in the 60..2000 Hz
\* band; 8 samples give no frame, 9 give one.  At 480 Hz bin 1 is at 60 Hz, at
\* 16000 Hz bin 1 is at 2000 Hz and the bins above it are out of the band.  At
\* these rates no tempo lag fits.
KeyCases ==
    ({800, 3520} \X {0, 3, 8, 9, 13, 21, 105})
    \cup ({480, 16000} \X {13, 21})

\* pearsonCorrelation is not being called on its own.
CorrIdle ==
    /\ corrPc = "idle"
    /\ corrA = <<>>
    /\ corrB = <<>>
    /\ corrResult = 0

\* fft and getMagnitudeSpectrum are not being called on their own.
FftIdle ==
    /\ fftPc = "idle"
    /\ fftReal = <<>>
    /\ fftImag = <<>>
    /\ fftOut = [re |-> <<>>, im |-> <<>>]
    /\ magOut = <<>>

\* The two passes are looked at without the AudioContext around them.
CtxIdle ==
    /\ ctxState = "none"
    /\ closeCalls = 0
    /\ failure = "none"
    /\ settled = "pending"

\* null and a value that is not null.
None == <<>>

Some(v) == <<v>>

\* The files the user can hand over: [name, type], the type as its characters.
\* Two are audio files ("audio/x" and "audio/"), three are not ("audio", "", "v/audio/").
Files ==
    {[name |-> "a", type |-> <<"a", "u", "d", "i", "o", "/", "x">>],
     [name |-> "b", type |-> <<"a", "u", "d", "i", "o", "/">>],
     [name |-> "c", type |-> <<"a", "u", "d", "i", "o">>],
     [name |-> "d", type |-> <<>>],
     [name |-> "e", type |-> <<"v", "/", "a", "u", "d", "i", "o", "/">>]}

FileNames == {f.name : f \in Files}

\* part_005:475-487: the useState initial values, nothing being analysed.
HomeMounted ==
    /\ status = "idle"
    /\ result = None
    /\ error = None
    /\ fileName = None
    /\ audioFile = None
    /\ isDragging = FALSE
    /\ isPlaying = FALSE
    /\ selectedBPM = None
    /\ restartTrigger = 0
    /\ stopTrigger = 0
    /\ volume = 10
    /\ bpmOffset = 0
    /\ useFlats = FALSE
    /\ pending = [n \in FileNames |-> 0]

\* No KeyRadar is on the page.
RadarIdle ==
    /\ activeNote = None
    /\ audioContextRef = None
    /\ oscillatorRef = None
    /\ oscillators = <<>>
    /\ radarMounted = FALSE

\* Nothing runs apart from the two passes of an analysis.
SideIdle == FftIdle /\ CtxIdle /\ HomeMounted /\ RadarIdle

\* detectKey is not being called a second time on a scaled buffer.
ScaleIdle ==
    /\ scalePc = "idle"
    /\ scaledBy = <<1, 1>>
    /\ unscaledResult = <<>>

\* detectBPM's locals before its frame loop.
BPMStart ==
    /\ start = 0
    /\ prevMagnitude = <<>>
    /\ spectralFlux = <<>>
    /\ correlations = <<>>
    /\ peaks = <<>>
    /\ alternatives = <<>>
    /\ bpmReturn = "none"
    /\ bpmResult = [bpm |-> 0, confidence |-> 0, alternatives |-> <<>>]

\* detectKey's locals before its frame loop.
KeyStart ==
    /\ keyStart = 0
    /\ chroma = [i \in 1..12 |-> 0]
    /\ maxChroma = 0
    /\ candidates = <<>>
    /\ range = 0
    /\ keyResult = <<>>

\* The state in which analyzeAudio calls detectBPM on a decoded buffer.
AnalysisStart ==
    /\ pc = "bpm_frames"
    /\ BPMStart
    /\ KeyStart

Init ==
    /\ \E c \in TempoCases \cup KeyCases :
          /\ sampleRate = c[1]
          /\ data \in Buffers(c[2])
    /\ AnalysisStart
    /\ CorrIdle
    /\ SideIdle
    /\ ScaleIdle

vars == <<sampleRate, data, pc, bpmVars, keyVars, corrVars, scaleVars, sideVars>>

\* analyzeAudio runs detectBPM, then detectKey, on the same buffer (part_003:307-308).
Next ==
    \/ BPMFrame
    \/ BPMTooShort
    \/ BPMCorrelate
    \/ BPMNoPeak
    \/ BPMSelect
    \/ KeyFrame
    \/ KeyNormalize
    \/ KeyCorrelate
    \/ KeyScore

Spec == Init /\ [][Next]_vars

\* ------------------------------------------------- the 120 BPM click track

\* 8 seconds at 86 frames per second (44100 Hz over the hop of 512 samples) with
\* an impulse of amplitude amp every 43 frames (500 ms), the first at sample first.
ClickTrack(first, amp) ==
    [n \in 1..(8 * 86) |-> IF (n - 1) % 43 = first THEN amp * FX ELSE 0]

ClickInit ==
    /\ sampleRate = 86
    /\ data \in {ClickTrack(first, amp) : first \in {0, 1, 2, 3, 20, 42}, amp \in 1..MaxAmp}
    /\ AnalysisStart
    /\ CorrIdle
    /\ SideIdle
    /\ ScaleIdle

\* detectBPM on a buffer that is long enough and has a tempo.
ClickNext ==
    \/ BPMFrame
    \/ BPMCorrelate
    \/ BPMSelect

ClickSpec == ClickInit /\ [][ClickNext]_vars

\* ------------------------------------------- pearsonCorrelation on its own

\* No analysis is running.
AnalysisIdle ==
    /\ sampleRate = 0
    /\ data = <<>>
    /\ pc = "idle"
    /\ BPMStart
    /\ KeyStart

\* 12 equal values of k tenths.
Constant(k) == [i \in 1..12 |-> (k * FX) \div 10]

\* 12 values, all low tenths except the one at position j, which is high tenths.
OneOut(j, low, high) ==
    [i \in 1..12 |-> IF i = j THEN (high * FX) \div 10 ELSE (low * FX) \div 10]

\* Second arguments of pearsonCorrelation: the chroma values of silence (all 0)
\* and of a uniform spectrum (all 1), 12 values of 0.5 and of 0.9, vectors with
\* one value apart, and rotated profiles.
CorrVectors ==
    {Constant(k) : k \in {0, 5, 9, 10}}
    \cup {OneOut(j, low, high) : j \in {1, 5, 12}, low \in {0, 3, 9}, high \in {1, 10}}
    \cup {ShiftedChroma(Profile(m), shift) : m \in {"major", "minor"}, shift \in {0, 7}}

CorrInit ==
    /\ AnalysisIdle
    /\ ScaleIdle
    /\ SideIdle
    /\ corrPc = "called"
    /\ corrA \in {Profile("major"), Profile("minor"), Constant(0), Constant(10)}
    /\ corrB \in CorrVectors
    /\ corrResult = 0

\* part_003:91-106: the call returns.
CorrReturn ==
    /\ corrPc = "called"
    /\ corrResult' = pearsonCorrelation(corrA, corrB)
    /\ corrPc' = "returned"
    /\ UNCHANGED <<corrA, corrB, scaleVars, sideVars, sampleRate, data, pc, bpmVars, keyVars>>

CorrNext == CorrReturn

CorrSpec == CorrInit /\ [][CorrNext]_vars

\* ----------------------------------------------- detectKey on a scaled buffer

\* The factors c = numerator / denominator by which the samples are multiplied:
\* 3/2 and 3/4 round every sample anew, 1/64 and 1/1024 bring the samples to
\* within a few steps of the smallest value the arrays hold.
ScaleFactors == {<<3, 2>>, <<3, 4>>, <<1, 64>>, <<1, 1024>>}

\* c times one sample as the Float32Array holds it: the nearest value the array
\* can hold, the even one of two equally near.
ScaledSample(x, c) ==
    LET q == (x * c[1]) \div c[2]
        r == (x * c[1]) % c[2]
    IN  IF 2 * r > c[2] \/ (2 * r = c[2] /\ q % 2 = 1) THEN q + 1 ELSE q

Scaled(buffer, c) == [i \in 1..Len(buffer) |-> ScaledSample(buffer[i], c)]

\* detectKey is called on a buffer; the buffer times scaledBy comes next.
ScaleInit ==
    /\ \E c \in KeyCases :
          /\ sampleRate = c[1]
          /\ data \in Buffers(c[2])
    /\ pc = "bpm_done"
    /\ BPMStart
    /\ KeyStart
    /\ CorrIdle
    /\ SideIdle
    /\ scalePc = "first"
    /\ scaledBy \in ScaleFactors
    /\ unscaledResult = <<>>

\* part_003:108-115: detectKey is called again, on the scaled buffer.
ScaleAgain ==
    /\ pc = "done"
    /\ scalePc = "first"
    /\ unscaledResult' = keyResult
    /\ data' = Scaled(data, scaledBy)
    /\ pc' = "bpm_done"
    /\ keyStart' = 0
    /\ chroma' = [i \in 1..12 |-> 0]
    /\ maxChroma' = 0
    /\ candidates' = <<>>
    /\ range' = 0
    /\ keyResult' = <<>>
    /\ scalePc' = "second"
    /\ UNCHANGED <<corrVars, sideVars, scaledBy, sampleRate, bpmVars>>

ScaleNext ==
    \/ KeyFrame
    \/ KeyNormalize
    \/ KeyCorrelate
    \/ KeyScore
    \/ ScaleAgain

ScaleSpec == ScaleInit /\ [][ScaleNext]_vars

\* ------------------------------------- detectKey on the chroma of a profile

\* The profile of mode with its first weight at pitch class p, at k quarters of
\* its height.
RotatedProfile(mode, p, k) ==
    [j \in 1..12 |-> (Profile(mode)[((j - 1 - p + 12) % 12) + 1] * k) \div 4]

\* Chroma vectors that are a rotated profile, as accumulated or as normalized.
ProfileChromas ==
    {RotatedProfile(mode, p, k) : mode \in {"major", "minor"}, p \in 0..11, k \in 1..4}
    \cup {NormalizeChroma(RotatedProfile(mode, p, 4)) : mode \in {"major", "minor"}, p \in 0..11}

\* detectKey has left its frame loop with the chroma of a profile.
RotInit ==
    /\ sampleRate = 800
    /\ data = <<>>
    /\ pc = "key_normalized"
    /\ BPMStart
    /\ keyStart = 0
    /\ chroma \in ProfileChromas
    /\ maxChroma = MaxOf(chroma)
    /\ candidates = <<>>
    /\ range = 0
    /\ keyResult = <<>>
    /\ CorrIdle
    /\ SideIdle
    /\ ScaleIdle

RotNext ==
    \/ KeyCorrelate
    \/ KeyScore

RotSpec == RotInit /\ [][RotNext]_vars

\* ------------------------------- fft and getMagnitudeSpectrum on their own

\* sin(2*pi*j/8) in thousandths.
Sine8 == <<0, 707, 1000, 707, 0, -707, -1000, -707>>

\* n samples of a sine of amplitude a with k cycles in the n samples.
Sine(n, k, a) ==
    [t \in 1..n |-> (a * Sine8[((k * (t - 1) * (8 \div n)) % 8) + 1] * FX) \div 1000]

Cosine(n, k, a) ==
    [t \in 1..n |-> (a * Cosine8[((k * (t - 1) * (8 \div n)) % 8) + 1] * FX) \div 1000]

\* n samples, all 0 but sample j, which is a.
Impulse(n, j, a) == [t \in 1..n |-> IF t = j THEN a * FX ELSE 0]

Signals(n) ==
    {Sine(n, k, a) : k \in 1..(n \div 2 - 1), a \in 1..MaxAmp}
    \cup {Cosine(n, k, a) : k \in 0..(n \div 2), a \in 1..MaxAmp}
    \cup {Impulse(n, j, a) : j \in 1..n, a \in 1..MaxAmp}

\* fft is called with arrays of 2, 4 or 8 elements; imag is all 0, as
\* getMagnitudeSpectrum has it, or holds one impulse.
FftInit ==
    /\ AnalysisIdle
    /\ CorrIdle
    /\ ScaleIdle
    /\ CtxIdle
    /\ HomeMounted
    /\ RadarIdle
    /\ fftPc = "called"
    /\ \E n \in {2, 4, 8} :
          /\ fftReal \in Signals(n)
          /\ fftImag \in {Impulse(n, j, a) : j \in 1..n, a \in 0..1}
    /\ fftOut = [re |-> <<>>, im |-> <<>>]
    /\ magOut = <<>>

\* part_003:21-67: fft returns, the arrays hold the transform.
FftReturn ==
    /\ fftPc = "called"
    /\ LET n == Len(fftReal)
       IN  fftOut' = fft([re |-> [i \in 0..(n - 1) |-> fftReal[i + 1]],
                          im |-> [i \in 0..(n - 1) |-> fftImag[i + 1]]], n)
    /\ fftPc' = "transformed"
    /\ UNCHANGED <<fftReal, fftImag, magOut, sampleRate, data, pc, bpmVars, keyVars,
                   corrVars, scaleVars, ctxVars, homeVars,
                   radarVars>>

\* part_003:69-89: getMagnitudeSpectrum(fftReal, n) returns.
MagnitudeReturn ==
    /\ fftPc = "transformed"
    /\ magOut' = getMagnitudeSpectrum(fftReal, Len(fftReal))
    /\ fftPc' = "returned"
    /\ UNCHANGED <<fftReal, fftImag, fftOut, sampleRate, data, pc, bpmVars, keyVars,
                   corrVars, scaleVars, ctxVars, homeVars,
                   radarVars>>

FftNext ==
    \/ FftReturn
    \/ MagnitudeReturn

FftSpec == FftInit /\ [][FftNext]_vars

\* --------------------------------------------- analyzeAudio and its context

\* Mutant of RunsFinally: close() is the last statement of the try block.
RunsFinallyUnlessThrown(thrown) == ~thrown

\* part_003:316-318: the finally block runs whether the try block threw or not.
RunsFinally(thrown) == TRUE

\* What the file decodes to: one tempo input and two key inputs.
FileCases == {<<86, 105>>, <<800, 21>>, <<800, 8>>}

\* part_003:301-303: the context is created and the try block entered.
CtxInit ==
    /\ \E c \in FileCases :
          /\ sampleRate = c[1]
          /\ data \in Buffers(c[2])
    /\ pc = "reading"
    /\ BPMStart
    /\ KeyStart
    /\ CorrIdle
    /\ ScaleIdle
    /\ FftIdle
    /\ HomeMounted
    /\ RadarIdle
    /\ ctxState = "running"
    /\ closeCalls = 0
    /\ failure = "none"
    /\ settled = "pending"

\* part_003:304: file.arrayBuffer() resolves.
ReadFile ==
    /\ pc = "reading"
    /\ pc' = "decoding"
    /\ UNCHANGED <<sampleRate, data, bpmVars, keyVars, corrVars, scaleVars, sideVars>>

\* part_003:305: decodeAudioData resolves with the buffer.
DecodeAudio ==
    /\ pc = "decoding"
    /\ pc' = "bpm_frames"
    /\ UNCHANGED <<sampleRate, data, bpmVars, keyVars, corrVars, scaleVars, sideVars>>

\* The statement of the try block that is running at pc.
Statement(at) ==
    CASE at = "reading" -> "read"
      [] at = "decoding" -> "decode"
      [] at \in {"bpm_frames", "bpm_peaks"} -> "detectBPM"
      [] at \in {"bpm_done", "key_normalized", "key_sorted"} -> "detectKey"

\* part_003:304-308: the running statement rejects or throws.
Throw ==
    /\ pc \in {"reading", "decoding", "bpm_frames", "bpm_peaks", "bpm_done",
                "key_normalized", "key_sorted"}
    /\ failure' = Statement(pc)
    /\ pc' = "failed"
    /\ UNCHANGED <<sampleRate, data, bpmVars, keyVars, corrVars, scaleVars, fftVars, homeVars,
                   radarVars,
                   ctxState, closeCalls, settled>>

\* part_003:316-318: await audioContext.close().
CloseContext ==
    /\ pc \in {"done", "failed"}
    /\ RunsFinally(pc = "failed")
    /\ ctxState' = "closed"
    /\ closeCalls' = closeCalls + 1
    /\ pc' = "closed"
    /\ UNCHANGED <<sampleRate, data, bpmVars, keyVars, corrVars, scaleVars, fftVars, homeVars,
                   radarVars,
                   failure, settled>>

\* part_003:310-315 and 318: the promise is fulfilled with the result, or rejected
\* with what was thrown.
Settle ==
    /\ \/ pc = "closed"
       \/ pc \in {"done", "failed"} /\ ~RunsFinally(pc = "failed")
    /\ settled' = IF failure = "none" THEN "fulfilled" ELSE "rejected"
    /\ pc' = "settled"
    /\ UNCHANGED <<sampleRate, data, bpmVars, keyVars, corrVars, scaleVars, fftVars, homeVars,
                   radarVars,
                   ctxState, closeCalls, failure>>

CtxNext ==
    \/ ReadFile
    \/ DecodeAudio
    \/ Next
    \/ Throw
    \/ CloseContext
    \/ Settle

CtxSpec == CtxInit /\ [][CtxNext]_vars

\* ----------------------------------------------------------------- KeyRadar

\* part_000:11-24, in hundredths of a hertz.
NOTE_FREQUENCIES ==
    [key \in {"C", "C#", "D", "D#", "E", "F", "F#", "G", "G#", "A", "A#", "B"} |->
        CASE key = "C" -> 26163
          [] key = "C#" -> 27718
          [] key = "D" -> 29366
          [] key = "D#" -> 31113
          [] key = "E" -> 32963
          [] key = "F" -> 34923
          [] key = "F#" -> 36999
          [] key = "G" -> 39200
          [] key = "G#" -> 41530
          [] key = "A" -> 44000
          [] key = "A#" -> 46616
          [] key = "B" -> 49388]

\* part_000:27: the candidates the radar shows, each one a note to toggle.
top6 == {[key |-> "C", mode |-> "major"], [key |-> "A", mode |-> "minor"],
         [key |-> "C", mode |-> "minor"]}

\* part_000:69: `${key}-${mode}`
noteId(key, mode) == <<key, "-", mode>>

\* Mutant of FadeOut: the oscillator held is left sounding.
FadeOutNot(oscs, ref) == oscs

\* part_000:35-39, 75-79, 87-91: the oscillator held, if there is one, has its gain
\* ramped down to 0.001 and a timer set that will stop it.
FadeOut(oscs, ref) ==
    IF ref = None
    THEN oscs
    ELSE [oscs EXCEPT ![ref[1]].gain = "down", ![ref[1]].timer = TRUE]

\* part_000:68-111. The oscillator created has its gain ramping up to 0.2, is started,
\* and has no timer set to stop it.
toggleNote(key, mode) ==
    /\ radarMounted
    /\ IF activeNote = Some(noteId(key, mode))
       THEN /\ oscillators' = FadeOut(oscillators, oscillatorRef)
            /\ oscillatorRef' = None
            /\ activeNote' = None
            /\ UNCHANGED audioContextRef
       ELSE /\ Len(oscillators) < MaxOscillators
            /\ audioContextRef' = Some("running")
            /\ oscillators' =
                  Append(FadeOut(oscillators, oscillatorRef),
                         [frequency |-> NOTE_FREQUENCIES[key], gain |-> "up",
                          started |-> TRUE, stopped |-> FALSE, timer |-> FALSE])
            /\ oscillatorRef' = Some(Len(oscillators) + 1)
            /\ activeNote' = Some(noteId(key, mode))
    /\ UNCHANGED radarMounted

\* part_000:33-41: the effect that runs when stopTrigger has changed.
StopTriggerEffect ==
    IF radarMounted /\ stopTrigger' # 0 /\ stopTrigger' > 0 /\ oscillatorRef # None
    THEN /\ oscillators' = FadeOut(oscillators, oscillatorRef)
         /\ oscillatorRef' = None
         /\ activeNote' = None
         /\ UNCHANGED <<audioContextRef, radarMounted>>
    ELSE UNCHANGED radarVars

\* part_000:56-65: the cleanup that runs when the radar leaves the page.
Cleanup ==
    /\ oscillators' = IF oscillatorRef = None
                      THEN oscillators
                      ELSE [oscillators EXCEPT ![oscillatorRef[1]].stopped = TRUE]
    /\ audioContextRef' = IF audioContextRef = None THEN None ELSE Some("closed")
    /\ radarMounted' = FALSE
    /\ UNCHANGED <<activeNote, oscillatorRef>>

\* part_005:672-688: the radar is on the page exactly while the results are shown;
\* one that comes onto the page starts with fresh state and refs (part_000:28-30).
RadarFollows ==
    IF status' = "done" /\ result' # None
    THEN IF radarMounted
         THEN UNCHANGED radarVars
         ELSE /\ activeNote' = None
              /\ audioContextRef' = None
              /\ oscillatorRef' = None
              /\ radarMounted' = TRUE
              /\ UNCHANGED oscillators
    ELSE IF radarMounted THEN Cleanup ELSE UNCHANGED radarVars

\* ---------------------------------------------------------------- Home page

\* part_005:491: file.type.startsWith("audio/")
IsAudio(f) ==
    /\ Len(f.type) >= 6
    /\ SubSeq(f.type, 1, 6) = <<"a", "u", "d", "i", "o", "/">>

\* Mutant of HandleFile: the file type is not looked at.
HandleFileOfAnyType(f) ==
    /\ fileName' = Some(f.name)
    /\ audioFile' = Some(f)
    /\ status' = "analyzing"
    /\ error' = None
    /\ result' = None
    /\ pending' = [pending EXCEPT ![f.name] = @ + 1]

\* part_005:490-502: handleFile up to its await.
HandleFile(f) ==
    IF ~IsAudio(f)
    THEN /\ error' = Some("Please drop an audio file")
         /\ status' = "error"
         /\ UNCHANGED <<fileName, audioFile, result, pending>>
    ELSE /\ fileName' = Some(f.name)
         /\ audioFile' = Some(f)
         /\ status' = "analyzing"
         /\ error' = None
         /\ result' = None
         /\ pending' = [pending EXCEPT ![f.name] = @ + 1]

\* part_005:513-522: a drop, with a file or without one.
HandleDrop ==
    /\ isDragging' = FALSE
    /\ \/ \E f \in Files :
             /\ pending[f.name] < MaxPending
             /\ HandleFile(f)
       \/ UNCHANGED <<status, result, error, fileName, audioFile, pending>>
    /\ UNCHANGED <<isPlaying, selectedBPM, restartTrigger, stopTrigger, volume,
                   bpmOffset, useFlats>>
    /\ UNCHANGED <<sampleRate, data, pc, bpmVars, keyVars, corrVars, scaleVars, fftVars,
                   ctxVars>>
    /\ RadarFollows

\* part_005:524-527
HandleDragOver ==
    /\ isDragging' = TRUE
    /\ UNCHANGED <<status, result, error, fileName, audioFile, pending, isPlaying,
                   selectedBPM, restartTrigger, stopTrigger, volume, bpmOffset, useFlats>>
    /\ UNCHANGED <<sampleRate, data, pc, bpmVars, keyVars, corrVars, scaleVars, fftVars,
                   ctxVars, radarVars>>

\* part_005:529-532
HandleDragLeave ==
    /\ isDragging' = FALSE
    /\ UNCHANGED <<status, result, error, fileName, audioFile, pending, isPlaying,
                   selectedBPM, restartTrigger, stopTrigger, volume, bpmOffset, useFlats>>
    /\ UNCHANGED <<sampleRate, data, pc, bpmVars, keyVars, corrVars, scaleVars, fftVars,
                   ctxVars, radarVars>>

\* part_005:534-540: a file chosen in the file dialog.
HandleInputChange ==
    /\ \E f \in Files :
          /\ pending[f.name] < MaxPending
          /\ HandleFile(f)
    /\ UNCHANGED <<isDragging, isPlaying, selectedBPM, restartTrigger, stopTrigger,
                   volume, bpmOffset, useFlats>>
    /\ UNCHANGED <<sampleRate, data, pc, bpmVars, keyVars, corrVars, scaleVars, fftVars,
                   ctxVars>>
    /\ RadarFollows

\* part_005:504-507: a call of analyzeAudio resolves, with the analysis of its file,
\* and handleFile goes on.
AnalysisCompletes ==
    /\ \E n \in FileNames :
          /\ pending[n] > 0
          /\ pending' = [pending EXCEPT ![n] = @ - 1]
          /\ result' = Some([of |-> n])
    /\ status' = "done"
    /\ UNCHANGED <<error, fileName, audioFile, isDragging, isPlaying, selectedBPM,
                   restartTrigger, stopTrigger, volume, bpmOffset, useFlats>>
    /\ UNCHANGED <<sampleRate, data, pc, bpmVars, keyVars, corrVars, scaleVars, fftVars,
                   ctxVars>>
    /\ RadarFollows

\* part_005:508-510: a call of analyzeAudio rejects, with an Error that has a message
\* or with something else, and handleFile catches.
AnalysisFails ==
    /\ \E n \in FileNames,
          err \in {[isError |-> TRUE, message |-> "Unable to decode audio data"],
                   [isError |-> TRUE, message |-> ""],
                   [isError |-> FALSE, message |-> ""]} :
          /\ pending[n] > 0
          /\ pending' = [pending EXCEPT ![n] = @ - 1]
          /\ error' = Some(IF err.isError THEN err.message ELSE "Failed to analyze audio")
    /\ status' = "error"
    /\ UNCHANGED <<result, fileName, audioFile, isDragging, isPlaying, selectedBPM,
                   restartTrigger, stopTrigger, volume, bpmOffset, useFlats>>
    /\ UNCHANGED <<sampleRate, data, pc, bpmVars, keyVars, corrVars, scaleVars, fftVars,
                   ctxVars>>
    /\ RadarFollows

\* part_005:680: the results and their controls are rendered.
ResultsShown == status = "done" /\ result # None

\* part_005:542-555, called from "Analyze another" (part_005:705), which is rendered
\* with the results, and from "Try again" (part_005:717), rendered on an error.
reset ==
    /\ ResultsShown \/ status = "error"
    /\ status' = "idle"
    /\ result' = None
    /\ error' = None
    /\ fileName' = None
    /\ audioFile' = None
    /\ isPlaying' = FALSE
    /\ selectedBPM' = None
    /\ restartTrigger' = 0
    /\ stopTrigger' = 0
    /\ volume' = 10
    /\ bpmOffset' = 0
    /\ useFlats' = FALSE
    /\ UNCHANGED <<isDragging, pending>>
    /\ UNCHANGED <<sampleRate, data, pc, bpmVars, keyVars, corrVars, scaleVars, fftVars,
                   ctxVars>>
    /\ RadarFollows

\* part_005:557-559, and the effect of the radar that the new stopTrigger runs.
handleStop ==
    /\ ResultsShown
    /\ stopTrigger < MaxTrigger
    /\ stopTrigger' = stopTrigger + 1
    /\ StopTriggerEffect
    /\ UNCHANGED <<isPlaying, selectedBPM, restartTrigger, volume, bpmOffset, useFlats>>
    /\ UNCHANGED <<status, result, error, fileName, audioFile, isDragging, pending>>
    /\ UNCHANGED <<sampleRate, data, pc, bpmVars, keyVars, corrVars, scaleVars, fftVars,
                   ctxVars>>

\* part_005:560-563
handleBPMSelect ==
    /\ ResultsShown
    /\ restartTrigger < MaxTrigger
    /\ \E bpm \in {60, 120} : selectedBPM' = Some(bpm)
    /\ restartTrigger' = restartTrigger + 1
    /\ UNCHANGED <<isPlaying, stopTrigger, volume, bpmOffset, useFlats>>
    /\ UNCHANGED <<status, result, error, fileName, audioFile, isDragging, pending>>
    /\ UNCHANGED <<sampleRate, data, pc, bpmVars, keyVars, corrVars, scaleVars, fftVars,
                   ctxVars, radarVars>>

\* part_005:565-567, the volume in tenths.
handleVolumeChange ==
    /\ ResultsShown
    /\ \E vol \in {0, 10} : volume' = vol
    /\ UNCHANGED <<isPlaying, selectedBPM, restartTrigger, stopTrigger, bpmOffset, useFlats>>
    /\ UNCHANGED <<status, result, error, fileName, audioFile, isDragging, pending>>
    /\ UNCHANGED <<sampleRate, data, pc, bpmVars, keyVars, corrVars, scaleVars, fftVars,
                   ctxVars, radarVars>>

\* part_005:569-571
handleBPMOffsetChange ==
    /\ ResultsShown
    /\ \E offset \in {-5, 0} : bpmOffset' = offset
    /\ UNCHANGED <<isPlaying, selectedBPM, restartTrigger, stopTrigger, volume, useFlats>>
    /\ UNCHANGED <<status, result, error, fileName, audioFile, isDragging, pending>>
    /\ UNCHANGED <<sampleRate, data, pc, bpmVars, keyVars, corrVars, scaleVars, fftVars,
                   ctxVars, radarVars>>

\* part_005:573-576
handleBPMOffsetRelease ==
    /\ ResultsShown
    /\ restartTrigger < MaxTrigger
    /\ restartTrigger' = restartTrigger + 1
    /\ UNCHANGED <<isPlaying, selectedBPM, stopTrigger, volume, bpmOffset, useFlats>>
    /\ UNCHANGED <<status, result, error, fileName, audioFile, isDragging, pending>>
    /\ UNCHANGED <<sampleRate, data, pc, bpmVars, keyVars, corrVars, scaleVars, fftVars,
                   ctxVars, radarVars>>

\* part_005:578-580
toggleNotation ==
    /\ ResultsShown
    /\ useFlats' = ~useFlats
    /\ UNCHANGED <<isPlaying, selectedBPM, restartTrigger, stopTrigger, volume, bpmOffset>>
    /\ UNCHANGED <<status, result, error, fileName, audioFile, isDragging, pending>>
    /\ UNCHANGED <<sampleRate, data, pc, bpmVars, keyVars, corrVars, scaleVars, fftVars,
                   ctxVars, radarVars>>

\* part_005:698: onPlayingChange={setIsPlaying}
PlayingChange ==
    /\ ResultsShown
    /\ isPlaying' = ~isPlaying
    /\ UNCHANGED <<selectedBPM, restartTrigger, stopTrigger, volume, bpmOffset, useFlats>>
    /\ UNCHANGED <<status, result, error, fileName, audioFile, isDragging, pending>>
    /\ UNCHANGED <<sampleRate, data, pc, bpmVars, keyVars, corrVars, scaleVars, fftVars,
                   ctxVars, radarVars>>

HomeInit ==
    /\ AnalysisIdle
    /\ CorrIdle
    /\ ScaleIdle
    /\ FftIdle
    /\ CtxIdle
    /\ HomeMounted
    /\ RadarIdle

HomeNext ==
    \/ HandleDrop
    \/ HandleDragOver
    \/ HandleDragLeave
    \/ HandleInputChange
    \/ AnalysisCompletes
    \/ AnalysisFails
    \/ reset
    \/ handleStop
    \/ handleBPMSelect
    \/ handleVolumeChange
    \/ handleBPMOffsetChange
    \/ handleBPMOffsetRelease
    \/ toggleNotation
    \/ PlayingChange

HomeSpec == HomeInit /\ [][HomeNext]_vars

\* -------------------------------------------------- KeyRadar on the Home page

\* The page shows the results of an analysis, the radar among them.
RadarInit ==
    /\ AnalysisIdle
    /\ CorrIdle
    /\ ScaleIdle
    /\ FftIdle
    /\ CtxIdle
    /\ status = "done"
    /\ result = Some([of |-> "a"])
    /\ error = None
    /\ fileName = Some("a")
    /\ audioFile \in {Some(f) : f \in {g \in Files : g.name = "a"}}
    /\ isDragging = FALSE
    /\ isPlaying = FALSE
    /\ selectedBPM = None
    /\ restartTrigger = 0
    /\ stopTrigger = 0
    /\ volume = 10
    /\ bpmOffset = 0
    /\ useFlats = FALSE
    /\ pending = [n \in FileNames |-> 0]
    /\ activeNote = None
    /\ audioContextRef = None
    /\ oscillatorRef = None
    /\ oscillators = <<>>
    /\ radarMounted = TRUE

\* part_000:199, 243: a click on a note of the radar.
ToggleNote ==
    /\ \E c \in top6 : toggleNote(c.key, c.mode)
    /\ UNCHANGED <<sampleRate, data, pc, bpmVars, keyVars, corrVars, scaleVars, fftVars,
                   ctxVars, homeVars>>

\* part_000:37-39, 77-79, 89-91: a timer fires and stops its oscillator.
TimerFires ==
    /\ \E i \in DOMAIN oscillators :
          /\ oscillators[i].timer
          /\ oscillators' = [oscillators EXCEPT ![i].timer = FALSE, ![i].stopped = TRUE]
    /\ UNCHANGED <<activeNote, audioContextRef, oscillatorRef, radarMounted>>
    /\ UNCHANGED <<sampleRate, data, pc, bpmVars, keyVars, corrVars, scaleVars, fftVars,
                   ctxVars, homeVars>>

RadarNext ==
    \/ ToggleNote
    \/ handleStop
    \/ TimerFires
    \/ reset

RadarSpec == RadarInit /\ [][RadarNext]_vars

\* ------------------------------------------------------------------- claims

\* detectBPM has returned.
BPMReturned == bpmReturn # "none"

Silent == \A i \in 1..Len(data) : data[i] = 0

IsDegenerate(r) == r.bpm = 120 /\ r.confidence = 0 /\ r.alternatives = <<>>

\* C1: for an all-zero buffer of any length the tempo pass returns bpm 120,
\* confidence 0 and no alternatives, and the key pass returns 6 candidates, each
\* with confidence 0.
C1_Silence ==
    Silent =>
        /\ BPMReturned => IsDegenerate(bpmResult)
        /\ pc = "done" =>
              /\ Len(keyResult) = 6
              /\ \A i \in 1..6 : keyResult[i].confidence = 0

\* A silent buffer long enough for 100 flux values has been analysed by both passes.
C1_Witness == Silent /\ Len(spectralFlux) >= 100 /\ pc = "done"

StrictlyAscending(xs) == \A i \in 1..(Len(xs) - 1) : xs[i] < xs[i + 1]

\* C2: the returned alternatives never contain the primary bpm, are at most 3,
\* are strictly ascending, and each is more than 5 away from the primary bpm.
C2_AlternativesInvariant ==
    BPMReturned =>
        LET alts == bpmResult.alternatives
        IN  /\ Len(alts) <= 3
            /\ StrictlyAscending(alts)
            /\ \A i \in 1..Len(alts) :
                  alts[i] # bpmResult.bpm /\ Abs(alts[i] - bpmResult.bpm) > 5

\* A result with 3 alternatives, one of them a folded peak that was inserted
\* after a larger octave partner.
C2_Witness ==
    /\ bpmReturn = "result"
    /\ Len(bpmResult.alternatives) = 3
    /\ Len(alternatives) >= 3
    /\ alternatives[1] > alternatives[2]

ElementsOf(xs) == {xs[i] : i \in 1..Len(xs)}

\* C3 as claimed: the returned alternatives are the 3 numerically smallest of
\* the deduplicated candidates (sorted first, truncated after).
C3_SmallestThree ==
    BPMReturned =>
        bpmResult.alternatives
            = SubSeq(SortAsc(alternatives), 1, Min2(3, Len(alternatives)))

\* C3 amended: the returned alternatives are the first 3 candidates in insertion
\* order (octave partners first, then the folded peaks by descending strength),
\* sorted ascending after the truncation.
C3_FirstThreeInserted ==
    BPMReturned =>
        /\ ElementsOf(bpmResult.alternatives)
              = {alternatives[i] : i \in 1..Min2(3, Len(alternatives))}
        /\ StrictlyAscending(bpmResult.alternatives)

\* More than 3 candidates were collected, and the one dropped is smaller than
\* one that was kept.
C3_Witness ==
    /\ bpmReturn = "result"
    /\ Len(alternatives) > 3
    /\ \E i \in 1..3 : alternatives[4] < alternatives[i]

\* C4: a primary bpm b found from a peak, with 2*b <= 200, has 2*b among the
\* returned alternatives.
C4_DoublePresent ==
    (bpmReturn = "result" /\ 2 * bpmResult.bpm <= 200) =>
        2 * bpmResult.bpm \in ElementsOf(bpmResult.alternatives)

\* bpm 100 with more than 3 candidates collected, and 200 returned.
C4_Witness ==
    /\ bpmReturn = "result"
    /\ bpmResult.bpm = 100
    /\ Len(alternatives) > 3
    /\ 200 \in ElementsOf(bpmResult.alternatives)

\* The single fold as C5 states it; round(p/2) of an integer p is (p + 1) div 2.
OneFold(p) ==
    IF p > 140 /\ p >= 2 * 60 THEN (p + 1) \div 2
    ELSE IF p < 80 /\ 2 * p <= 180 THEN 2 * p
    ELSE p

\* The folds of the next 3 peaks that lie more than 5 away from the primary bpm.
FoldedOthers ==
    {f \in {OneFold(peaks[i].bpm) : i \in 2..Min2(4, Len(peaks))} :
        Abs(f - bpmResult.bpm) > 5}

\* C5: the primary bpm is the strongest peak's bpm folded once, and the next 3
\* peaks enter the alternatives under the same fold.
C5_SingleFold ==
    bpmReturn = "result" =>
        /\ bpmResult.bpm = OneFold(peaks[1].bpm)
        /\ FoldedOthers \subseteq ElementsOf(alternatives)
        /\ ElementsOf(alternatives) \subseteq
              FoldedOthers \cup {2 * bpmResult.bpm, (bpmResult.bpm + 1) \div 2}

\* The strongest peak was halved, and among the next 3 one was doubled and one
\* kept.
C5_Witness ==
    /\ bpmReturn = "result"
    /\ peaks[1].bpm > 140
    /\ bpmResult.bpm < 140
    /\ Len(peaks) >= 4
    /\ \E i, j \in 2..4 : peaks[i].bpm < 80 /\ peaks[j].bpm \in 80..140

\* C6: detectBPM returns at line 210 with the degenerate result exactly when
\* fewer than 100 flux values were produced.
C6_ShortCircuit ==
    BPMReturned =>
        /\ (bpmReturn = "short") = (Len(spectralFlux) < 100)
        /\ bpmReturn = "short" => IsDegenerate(bpmResult)

\* The largest short case: 99 flux values, returned at line 210.
C6_Witness == bpmReturn = "short" /\ Len(spectralFlux) = 99

NoInteriorMaximum(corr) ==
    ~\E i \in 2..(Len(corr) - 1) : corr[i] > corr[i - 1] /\ corr[i] > corr[i + 1]

\* C7: when the autocorrelation has no strict interior local maximum, detectBPM
\* returns the degenerate result.
C7_NoPeakFallback ==
    (BPMReturned /\ bpmReturn # "short" /\ NoInteriorMaximum(correlations)) =>
        bpmReturn = "nopeak" /\ IsDegenerate(bpmResult)

\* A monotone autocorrelation of 3 or more entries that is not constant.
C7_Witness ==
    /\ bpmReturn = "nopeak"
    /\ Len(correlations) >= 3
    /\ \A i \in 1..(Len(correlations) - 1) : correlations[i] >= correlations[i + 1]
    /\ correlations[1] > correlations[Len(correlations)]

Modes == {"major", "minor"}

KeyIndex(key) == CHOOSE i \in 0..11 : KEY_NAMES[i + 1] = key

\* The correlation of every (key, mode) with the normalized chroma values.
Correlation ==
    [t \in ElementsOf(KEY_NAMES) \X Modes |->
        pearsonCorrelation(Profile(t[2]), ShiftedChroma(chroma, KeyIndex(t[1])))]

Returned == {<<keyResult[i].key, keyResult[i].mode>> : i \in 1..Len(keyResult)}

\* C8: detectKey returns 6 distinct (key, mode) pairs, the 6 of highest
\* correlation among the 24, by correlation descending, with confidences in
\* [0, 1] that do not increase along the sequence.
C8_TopSix ==
    pc = "done" =>
        LET corr == Correlation
            at(i) == corr[<<keyResult[i].key, keyResult[i].mode>>]
        IN  /\ Len(keyResult) = 6
            /\ Cardinality(Returned) = 6
            /\ \A i \in 1..6 : keyResult[i].confidence \in 0..FX
            /\ \A i \in 1..5 :
                  /\ at(i) >= at(i + 1)
                  /\ keyResult[i].confidence >= keyResult[i + 1].confidence
            /\ \A t \in DOMAIN corr : t \notin Returned => corr[t] <= at(6)

\* A result for a buffer with energy in the band, whose 6 correlations differ.
C8_Witness ==
    /\ pc = "done"
    /\ maxChroma > 0
    /\ keyResult[1].confidence > keyResult[2].confidence
    /\ keyResult[5].confidence > keyResult[6].confidence

TopCorrelations == [i \in 1..6 |-> candidates[i].correlation]

\* C9 as claimed: the divisor of the confidences is never smaller than 1.
C9_DivisorAtLeastOne == pc = "done" => range >= FX

\* C9 amended: the divisor d is maxCorrInTop6 - minCorrInTop6 when that is not
\* 0 and 1 when it is 0, and each confidence is (corr - minCorrInTop6) / d.
C9_DivisorDifferenceOrOne ==
    pc = "done" =>
        LET top == TopCorrelations
        IN  /\ range = IF top[1] = top[6] THEN FX ELSE top[1] - top[6]
            /\ \A i \in 1..6 :
                  /\ keyResult[i].confidence * range <= (top[i] - top[6]) * FX
                  /\ (top[i] - top[6]) * FX < (keyResult[i].confidence + 1) * range

\* Six correlations that differ by less than 1 between the first and the last.
C9_Witness == pc = "done" /\ range > 0 /\ range < FX /\ keyResult[2].confidence > 0

Normalized == pc \in {"key_normalized", "key_sorted", "done"}

\* C10: after normalization the 12 chroma values lie in [0, 1] and one of them
\* is 1, unless no energy was accumulated, in which case all 12 are 0.
C10_ChromaNormalized ==
    Normalized =>
        IF maxChroma > 0
        THEN /\ \A i \in 1..12 : chroma[i] \in 0..FX
             /\ \E i \in 1..12 : chroma[i] = FX
        ELSE \A i \in 1..12 : chroma[i] = 0

\* Normalized chroma values with one strictly between 0 and 1.
C10_Witness == Normalized /\ \E i \in 1..12 : chroma[i] > 0 /\ chroma[i] < FX

ZeroVariance(v) == \A i \in 1..Len(v) : v[i] = v[1]

FramesClaimed(L, F, H) == IF L >= F THEN (L - F) \div H + 1 ELSE 0

KeyFramesDone == pc \in {"key_normalized", "key_sorted", "done"}

\* C15: both passes analyse exactly the frames starting at i*H with i*H + F <= L,
\* floor((L - F) / H) + 1 of them when L >= F and none otherwise.
C15_FullFramesAnalysed ==
    /\ BPMReturned =>
          start \div hopSizeBPM = FramesClaimed(Len(data), fftSizeBPM, hopSizeBPM)
    /\ KeyFramesDone =>
          keyStart \div hopSizeKey = FramesClaimed(Len(data), fftSizeKey, hopSizeKey)

ClampUnit(x) == IF x < 0 THEN 0 ELSE IF x > FX THEN FX ELSE x

\* The largest correlation: of the whole sequence, not only of the peaks.
LargestCorrelation ==
    CHOOSE x \in ElementsOf(correlations) : \A y \in ElementsOf(correlations) : y <= x

MeanCorrelation == SumOf(correlations) \div Len(correlations)

\* maxCorr - meanCorr + 0.001, in the unit of the correlations.
ConfidenceDivisor == LargestCorrelation - MeanCorrelation + (FX * FX) \div 1000

\* C17: a non-fallback confidence is (bestPeakCorr - meanCorr) over
\* (maxCorr - meanCorr + 0.001) clamped to [0, 1], with maxCorr and meanCorr taken
\* over the whole correlation sequence; the divisor is strictly positive.
C17_ConfidenceFormula ==
    bpmReturn = "result" =>
        /\ ConfidenceDivisor > 0
        /\ bpmResult.confidence
              = ClampUnit(((peaks[1].value - MeanCorrelation) * FX) \div ConfidenceDivisor)
        /\ bpmResult.confidence \in 0..FX

\* The largest correlation is not a peak (it lies on an edge of the sequence), and
\* the confidence is strictly inside (0, 1).
C17_Witness ==
    /\ bpmReturn = "result"
    /\ LargestCorrelation > peaks[1].value
    /\ bpmResult.confidence > 0
    /\ bpmResult.confidence < FX

\* The interior indexes (0-based) strictly greater than both neighbours.
StrictMaxima ==
    {i \in 1..(Len(correlations) - 2) :
        /\ correlations[i + 1] > correlations[i]
        /\ correlations[i + 1] > correlations[i + 2]}

\* C18: the peaks are exactly the interior strict local maxima of the correlation
\* sequence, each with bpm = round(60 * framesPerSecond / (minLag + i)), ordered
\* by correlation value descending.
C18_PeakPicking ==
    LET first == (sampleRate * 60) \div (hopSizeBPM * 180)
    IN  /\ {peaks[k].lag : k \in 1..Len(peaks)} = {first + i : i \in StrictMaxima}
        /\ Len(peaks) = Cardinality(StrictMaxima)
        /\ \A k \in 1..Len(peaks) :
              /\ peaks[k].value = correlations[peaks[k].lag - first + 1]
              /\ peaks[k].bpm
                    = (2 * 60 * sampleRate + hopSizeBPM * peaks[k].lag)
                          \div (2 * hopSizeBPM * peaks[k].lag)
        /\ \A k \in 1..(Len(peaks) - 1) : peaks[k].value >= peaks[k + 1].value

\* Peaks whose order by value differs from their order by lag, in a sequence that
\* also has a plateau.
C18_Witness ==
    /\ Len(peaks) >= 3
    /\ peaks[1].lag > peaks[2].lag
    /\ \E i \in 1..(Len(correlations) - 1) : correlations[i] = correlations[i + 1]

\* The lags C19 states for an onset signal of length L.
LagsClaimed(L) ==
    {lag \in ((sampleRate * 60) \div (hopSizeBPM * 180))
              ..((sampleRate * 60) \div (hopSizeBPM * 60)) : 2 * lag <= L}

\* C19: the autocorrelation has one entry for each lag with minLag <= lag <= maxLag
\* and lag <= L/2, in increasing lag order, each the sum of signal[i] * signal[i + lag]
\* over i in 0..L-lag-1 divided by L - lag.
C19_LagsUpToHalf ==
    bpmReturn \in {"nopeak", "result"} =>
        LET L     == Len(spectralFlux)
            first == (sampleRate * 60) \div (hopSizeBPM * 180)
        IN  /\ Len(correlations) = Cardinality(LagsClaimed(L))
            /\ \A k \in 1..Len(correlations) :
                  LET lag == first + k - 1
                  IN  correlations[k]
                        = SumOf([i \in 1..(L - lag) |->
                                    spectralFlux[i] * spectralFlux[i + lag]])
                          \div (L - lag)

\* The spectrum of the frame that starts at sample from (0-based).
SpectrumAt(from) ==
    getMagnitudeSpectrum(SubSeq(data, from + 1, from + fftSizeBPM), fftSizeBPM)

\* The sum over all bins of max(0, cur[i] - prev[i]).
RisingSum(cur, prev) == SumOf([i \in 1..Len(cur) |-> Max2(0, cur[i] - prev[i])])

\* C20: the onset signal has one value per consecutive pair of frames, in frame
\* order (frames - 1 values, none for 0 or 1 frames); the value of a pair is the
\* sum over all bins of max(0, mag_next[i] - mag[i]), so no value is negative.
C20_OnsetSignal ==
    /\ [](/\ Len(spectralFlux) = Max2(0, start \div hopSizeBPM - 1)
          /\ \A k \in 1..Len(spectralFlux) : spectralFlux[k] >= 0)
    /\ [][start' # start =>
             spectralFlux' =
                 IF start = 0 THEN <<>>
                 ELSE Append(spectralFlux,
                             RisingSum(SpectrumAt(start), SpectrumAt(start - hopSizeBPM)))]_vars

\* An onset signal, not yet normalized, with a positive value and a 0 that comes
\* from a pair of frames whose magnitudes differ.
C20_Witness ==
    /\ pc = "bpm_frames"
    /\ \E k \in 1..Len(spectralFlux) : spectralFlux[k] > 0
    /\ \E k \in 1..Len(spectralFlux) :
          /\ spectralFlux[k] = 0
          /\ SpectrumAt(k * hopSizeBPM) # SpectrumAt((k - 1) * hopSizeBPM)

\* C16: for an 8-second buffer with one impulse every 500 ms, detectBPM comes to
\* a result from a peak (not a fallback) with bpm within 118..122 and confidence
\* greater than 0.6.
C16_ClickTrack120 ==
    /\ (pc = "bpm_frames" /\ ~(start + fftSizeBPM < Len(data))) => Len(spectralFlux) >= 100
    /\ pc = "bpm_peaks" => Len(peaks) > 0
    /\ pc = "bpm_done" =>
          /\ bpmReturn = "result"
          /\ bpmResult.bpm \in 118..122
          /\ 10 * bpmResult.confidence > 6 * FX

\* The click track has been analysed and the result is 120.
C16_Witness ==
    /\ pc = "bpm_done"
    /\ Len(data) = 8 * 86
    /\ Len(spectralFlux) > 600
    /\ bpmResult.bpm = 120
    /\ bpmResult.confidence < FX

Pairs(found) == [i \in 1..Len(found) |-> <<found[i].key, found[i].mode>>]

C21_TonicNamed ==
    pc = "done" =>
        \A mode \in Modes, p \in 0..11, k \in 1..4 :
            (chroma = RotatedProfile(mode, p, k)
             \/ chroma = NormalizeChroma(RotatedProfile(mode, p, 4)))
            => /\ keyResult[1].key = KEY_NAMES[p + 1]
               /\ keyResult[1].mode = mode

\* The minor profile at pitch class 9 has been ranked: A minor.
C21_Witness ==
    /\ pc = "done"
    /\ chroma = NormalizeChroma(RotatedProfile("minor", 9, 4))
    /\ keyResult[1].key = "A"
    /\ keyResult[1].mode = "minor"
    /\ keyResult[1].confidence = FX

\* The equal-tempered notes from A4 to A5 in tenths of a Hz, A4 = 440 Hz.
NoteTenths == <<4400, 4662, 4939, 5233, 5544, 5873, 6223, 6593, 6985, 7400,
                7840, 8306, 8800>>

\* Note j is at least as near to f as note i, by the ratio of the frequencies.
AsNear(f, j, i) ==
    Max2(f, NoteTenths[j]) * Min2(f, NoteTenths[i])
        <= Max2(f, NoteTenths[i]) * Min2(f, NoteTenths[j])

\* round(69 + 12 * log2(freq / 440)) mod 12 for a frequency in tenths of a Hz:
\* the note nearest in pitch, octaves apart being the same class, A being 9.
RECURSIVE NearestClass(_)
NearestClass(f) ==
    IF f < NoteTenths[1] THEN NearestClass(2 * f)
    ELSE IF f > NoteTenths[13] THEN NearestClass(f \div 2)
    ELSE LET j == CHOOSE n \in 1..13 : \A i \in 1..13 : AsNear(f, n, i)
         IN  (9 + j - 1) % 12

\* Bin k of a spectrum of K magnitudes contributes.
Contributes(k, K) ==
    /\ k >= 1
    /\ k < K
    /\ 60 * fftSizeKey <= k * sampleRate
    /\ k * sampleRate <= 2000 * fftSizeKey

KeySpectrumAt(from) ==
    getMagnitudeSpectrum(SubSeq(data, from + 1, from + fftSizeKey), fftSizeKey)

\* What the frame at from adds to pitch class c: the squared magnitudes of the
\* contributing bins whose nearest note is of class c.
AddedTo(c, from) ==
    LET magnitude == KeySpectrumAt(from)
    IN  SumOf([b \in 1..Len(magnitude) |->
                  IF Contributes(b - 1, Len(magnitude))
                     /\ NearestClass((10 * (b - 1) * sampleRate) \div fftSizeKey) = c
                  THEN Mul(magnitude[b], magnitude[b]) ELSE 0])

\* C22: a frame adds to the chroma vector the squared magnitude of every bin
\* k >= 1 with 60 <= k * sampleRate / F <= 2000, at the one pitch class
\* round(69 + 12 * log2(freq / 440)) mod 12, and nothing else; 440 Hz is class 9.
C22_BinsToChroma ==
    /\ [](NearestClass(4400) = 9)
    /\ [][keyStart' # keyStart =>
             \A c \in 0..11 : chroma'[c + 1] = chroma[c + 1] + AddedTo(c, keyStart)]_vars

\* Frames have been added at 60 Hz (class B), 120 Hz and 180 Hz (class F#).
C22_Witness ==
    /\ sampleRate = 480
    /\ pc = "bpm_done"
    /\ keyStart > hopSizeKey
    /\ chroma[12] > 0
    /\ chroma[7] > 0
    /\ \A c \in 1..12 : c \notin {7, 12} => chroma[c] = 0

\* cos and sin of 2*pi*k*t/n as fixed-point numbers, n in {2, 4, 8}.
UnitCos(k, t, n) == (Cosine8[((k * t * (8 \div n)) % 8) + 1] * FX) \div 1000

UnitSin(k, t, n) == (Sine8[((k * t * (8 \div n)) % 8) + 1] * FX) \div 1000

\* The real and the imaginary part of X[k] = sum over t of x[t] * exp(-2*pi*i*k*t/n)
\* for x = re + i*im, two arrays over 0..n-1.
DftReal(re, im, k, n) ==
    SumOf([t \in 1..n |-> Mul(re[t - 1], UnitCos(k, t - 1, n))
                          + Mul(im[t - 1], UnitSin(k, t - 1, n))])

DftImag(re, im, k, n) ==
    SumOf([t \in 1..n |-> Mul(im[t - 1], UnitCos(k, t - 1, n))
                          - Mul(re[t - 1], UnitSin(k, t - 1, n))])

\* Equal up to the rounding of the arithmetic.
Near(x, y) == Abs(x - y) <= FXRoot

\* The index whose log2(n) bits are those of i reversed.
RECURSIVE ReversedBits(_, _)
ReversedBits(i, n) ==
    IF n <= 1 THEN 0 ELSE (i % 2) * (n \div 2) + ReversedBits(i \div 2, n \div 2)

FftInput ==
    [re |-> [i \in 0..(Len(fftReal) - 1) |-> fftReal[i + 1]],
     im |-> [i \in 0..(Len(fftReal) - 1) |-> fftImag[i + 1]]]

\* fft has left the discrete Fourier transform of its input, and its first loop
\* is the bit-reversal permutation.
FftIsDft ==
    fftPc \in {"transformed", "returned"} =>
        LET n == Len(fftReal)
            permuted == BitReversal(FftInput, 0, 0, n)
        IN  \A k \in 0..(n - 1) :
                /\ Near(fftOut.re[k], DftReal(FftInput.re, FftInput.im, k, n))
                /\ Near(fftOut.im[k], DftImag(FftInput.re, FftInput.im, k, n))
                /\ permuted.re[k] = FftInput.re[ReversedBits(k, n)]
                /\ permuted.im[k] = FftInput.im[ReversedBits(k, n)]

\* getMagnitudeSpectrum has returned n/2 magnitudes, none negative: those of the
\* transform of the windowed samples.
MagnitudesOfTransform ==
    fftPc = "returned" =>
        LET n == Len(fftReal)
            w == Windowed(fftReal, n)
        IN  /\ Len(magOut) = n \div 2
            /\ \A k \in 0..(n \div 2 - 1) :
                  LET xr == DftReal(w.re, w.im, k, n)
                      xi == DftImag(w.re, w.im, k, n)
                  IN  /\ magOut[k + 1] >= 0
                      /\ Near(magOut[k + 1], Sqrt(xr * xr + xi * xi))

\* The samples are a sine of k cycles and the magnitude of bin k is above all others.
PeakAtOwnBin(k) ==
    \A j \in 0..(Len(magOut) - 1) : j # k => magOut[j + 1] < magOut[k + 1]

IsSine(k) == \E a \in 1..MaxAmp : fftReal = Sine(Len(fftReal), k, a)

FramesAnalysed == start \div hopSizeBPM

\* C24 as stated: fewer than 100 frames take the insufficient-signal fallback,
\* 100 or more frames are not rejected as too short.
C24_HundredFrames ==
    BPMReturned => (bpmReturn = "short") = (FramesAnalysed < 100)

\* C24 amended: the threshold is 100 flux values, one per pair of consecutive
\* frames, so fewer than 101 frames take the fallback and 101 or more do not.
C24_HundredFluxValues ==
    BPMReturned =>
        /\ Len(spectralFlux) = Max2(0, FramesAnalysed - 1)
        /\ (bpmReturn = "short") = (FramesAnalysed < 101)

\* A buffer of exactly 100 frames has been rejected as too short.
C24_Witness ==
    /\ bpmReturn = "short"
    /\ FramesAnalysed = 100
    /\ ~Silent

\* C25: the confidence detectBPM returns is strictly less than 1, on the fallbacks
\* (0) and on a result, where the best peak's correlation is at most the maximum
\* and the divisor exceeds the dividend by 0.001.
C25_ConfidenceBelowOne ==
    BPMReturned =>
        /\ bpmResult.confidence < FX
        /\ bpmReturn = "result" =>
              /\ peaks[1].value <= LargestCorrelation
              /\ peaks[1].value - MeanCorrelation < ConfidenceDivisor

\* The best peak is the largest correlation of all, where the ratio is nearest to 1.
C25_Witness ==
    /\ bpmReturn = "result"
    /\ peaks[1].value = LargestCorrelation
    /\ 10 * bpmResult.confidence > 9 * FX

\* C26: the bpm detectBPM returns is in 60..180: 120 on the fallbacks; on a result
\* every peak's lag lies strictly between minLag and maxLag, so every peak's bpm is
\* in 60..180, and the primary, folded once, is too.
C26_PrimaryInRange ==
    BPMReturned =>
        /\ bpmResult.bpm \in 60..180
        /\ bpmReturn # "result" => bpmResult.bpm = 120
        /\ bpmReturn = "result" =>
              \A i \in 1..Len(peaks) :
                  /\ minLag(sampleRate) < peaks[i].lag
                  /\ peaks[i].lag < maxLag(sampleRate)
                  /\ peaks[i].bpm \in 60..180

\* A result with all lags up to maxLag inside the signal, a peak next to maxLag
\* and a primary that was folded.
C26_Witness ==
    /\ bpmReturn = "result"
    /\ Len(correlations) = maxLag(sampleRate) - minLag(sampleRate) + 1
    /\ \E i \in 1..Len(peaks) : peaks[i].lag >= maxLag(sampleRate) - 3
    /\ bpmResult.bpm # peaks[1].bpm

AllEqual(xs) == \A i \in 1..Len(xs) : xs[i] = xs[1]

\* No correlation of the candidates is NaN.
NoNaN == \A i \in 1..Len(candidates) : candidates[i].correlation # NaN

\* C27: when the 6 retained correlations are not all equal, the first candidate
\* returned has confidence 1 and the sixth has confidence 0; when they are all
\* equal, all six confidences are 0.  No correlation of an analysis is NaN.
C27_FirstOneLastZero ==
    pc = "done" =>
        /\ NoNaN
        /\ IF AllEqual(TopCorrelations)
           THEN \A i \in 1..6 : keyResult[i].confidence = 0
           ELSE /\ keyResult[1].confidence = FX
                /\ keyResult[6].confidence = 0

\* Six correlations that are not all equal, the seventh different from the sixth,
\* and a second confidence strictly between 0 and 1.
C27_Witness ==
    /\ pc = "done"
    /\ ~AllEqual(TopCorrelations)
    /\ candidates[7].correlation # candidates[6].correlation
    /\ keyResult[2].confidence > 0
    /\ keyResult[2].confidence < FX

\* C28: analyzeAudio closes the AudioContext it created exactly once on every exit
\* path, before its promise settles; the promise is rejected exactly when reading,
\* decoding or a pass threw, and fulfilled otherwise.
C28_ClosedOnce ==
    /\ closeCalls <= 1
    /\ (closeCalls = 1) = (ctxState = "closed")
    /\ settled # "pending" =>
          /\ closeCalls = 1
          /\ (settled = "rejected") = (failure # "none")

\* The promise has been rejected after detectKey threw in the middle of its frame
\* loop, and the context is closed.
C28_Witness ==
    /\ settled = "rejected"
    /\ failure = "detectKey"
    /\ keyStart > 0
    /\ ctxState = "closed"

\* A file is handed to handleFile, by a drop or by the file dialog.
Submits(f) ==
    /\ pending[f.name] < MaxPending
    /\ HandleFile(f)
    /\ UNCHANGED <<isPlaying, selectedBPM, restartTrigger, stopTrigger, volume,
                   bpmOffset, useFlats>>
    /\ isDragging' \in {isDragging, FALSE}

\* status is 'done' only while result holds a result, 'error' only while the error
\* message is not null.
StatusBacked ==
    /\ status = "done" => result # None
    /\ status = "error" => error # None

\* A file that is not an audio file moves status to 'error' and starts no analysis;
\* an audio file starts one.
TypeDecides ==
    \A f \in Files :
        Submits(f) => IF IsAudio(f) THEN status' = "analyzing" /\ pending' # pending
                      ELSE status' = "error" /\ pending' = pending /\ result' = result

\* The state variables reset sets are at their initial values.
ResetValues ==
    /\ status = "idle"
    /\ result = None
    /\ error = None
    /\ fileName = None
    /\ audioFile = None
    /\ isPlaying = FALSE
    /\ selectedBPM = None
    /\ restartTrigger = 0
    /\ stopTrigger = 0
    /\ volume = 10
    /\ bpmOffset = 0
    /\ useFlats = FALSE

\* C29 as stated: status is backed by result and error, the file type decides, and
\* reset returns every state variable to its initial value.
C29_ResetAll ==
    /\ []StatusBacked
    /\ [][TypeDecides]_vars
    /\ [][reset => (ResetValues /\ isDragging = FALSE)']_vars

\* C29 amended: reset returns every state variable but isDragging to its initial
\* value, and leaves isDragging as it is.
C29_ResetAllButDragging ==
    /\ []StatusBacked
    /\ [][TypeDecides]_vars
    /\ [][reset => (ResetValues' /\ isDragging' = isDragging)]_vars

\* reset has run while a file was held over the drop zone and an earlier analysis
\* was still under way: all is back to the initial values but isDragging.
C29_Witness ==
    /\ ResetValues
    /\ isDragging
    /\ pending["a"] > 0

\* The oscillators that sound: started, not stopped, and not fading out.
Sounding == {i \in DOMAIN oscillators :
                /\ oscillators[i].started
                /\ ~oscillators[i].stopped
                /\ oscillators[i].gain = "up"}

\* The oscillator held in oscillatorRef, if any.
Held == IF oscillatorRef = None THEN {} ELSE {oscillatorRef[1]}

\* At most one oscillator sounds, the one held, and a note is active exactly when
\* one is held.
OneTone ==
    /\ Cardinality(Sounding) <= 1
    /\ Sounding \subseteq Held
    /\ radarMounted => Sounding = Held
    /\ activeNote # None <=> oscillatorRef # None

\* Toggling the active note fades out the oscillator held and clears both;
\* toggling another note fades out the one held and makes a new one current.
TogglesAsSaid ==
    \A c \in top6 :
        toggleNote(c.key, c.mode) =>
            /\ Held \cap Sounding' = {}
            /\ \A i \in Held : oscillators'[i].timer
            /\ IF activeNote = Some(noteId(c.key, c.mode))
               THEN activeNote' = None /\ oscillatorRef' = None
               ELSE /\ activeNote' = Some(noteId(c.key, c.mode))
                    /\ Held' = {Len(oscillators) + 1}
                    /\ Held' \cap Held = {}
                    /\ Sounding' = Held'
                    /\ oscillators'[Len(oscillators) + 1].frequency
                          = NOTE_FREQUENCIES[c.key]

\* An increment of stopTrigger fades out the oscillator held and clears both.
StopClears ==
    handleStop =>
        /\ activeNote' = None
        /\ oscillatorRef' = None
        /\ Sounding' = {}
        /\ \A i \in Held : oscillators'[i].timer

\* C30: in KeyRadar at most one oscillator is held as the sounding one and
\* activeNote is non-null exactly when oscillatorRef holds an oscillator; toggling
\* the active note stops it and clears both, toggling a different note stops the
\* previous oscillator before the new one is current, and an increment of
\* stopTrigger clears both.
C30_OneToneHeld ==
    /\ []OneTone
    /\ [][TogglesAsSaid]_vars
    /\ [][StopClears]_vars

\* A second note was toggled while the first one sounded, and then stopTrigger was
\* incremented: nothing is held, the first oscillator is stopped and the second one
\* fades out.
C30_Witness ==
    /\ radarMounted
    /\ stopTrigger > 0
    /\ Len(oscillators) = 2
    /\ oscillators[1].stopped
    /\ oscillators[2].timer
    /\ activeNote = None
    /\ oscillatorRef = None

====
